---- MODULE Spec2Model ----
(***************************************************************************)
(* A model of firebase-auth-cloudflare-workers: the JWT structural decoder *)
(* (jwt-decoder.ts), the signature verifier (jws-verifier.ts), the token   *)
(* verifier / claims policy (FirebaseTokenVerifier) and the public key     *)
(* fetcher with its key-value cache (jwk-fetcher.ts, key-store.ts).        *)
(*                                                                         *)
(* JSON values are tagged records: [t |-> "string", s |-> ...],            *)
(* [t |-> "number", n |-> ...], [t |-> "undefined"], [t |-> "null"],       *)
(* [t |-> "object", ...] and [t |-> "array", items |-> <<...>>].          *)
(***************************************************************************)
EXTENDS Integers, Sequences, FiniteSets, TLC

VARIABLES
    now,      \* Math.floor(Date.now() / 1000) of the execution context
    cfg,      \* construction-time configuration: token kind, fetcher revision
    req,      \* the inputs the caller holds (token, clock skew, ...)
    call,     \* the last completed call with its inputs and its outcome
    kv,       \* the KeyStorer entry (WorkersKVStore): null or the stored value
    origin,   \* the response the public key endpoint currently serves
    pending   \* per caller, the call under way: the await it stands at (pc)
              \* and what it has read so far

vars == <<now, cfg, req, call, kv, origin, pending>>

\* Two callers share the execution context; an async call runs up to its next
\* await and other calls, timers and the outside world run in between.
Callers == 1 .. 2
NotCalling == [pc |-> "idle"]
NonePending == [p \in Callers |-> NotCalling]
\* caller p (one of the cfg.callers callers of the context) has no call
\* under way; the second caller calls while the first caller's call is under
\* way
MayCall(p) ==
    /\ p <= cfg.callers
    /\ pending[p].pc = "idle"
    /\ (p = 1 \/ pending[1].pc # "idle")

\* ------------------------------------------------------------------ bounds
MaxNow == 2          \* the clock ticks from 0 up to MaxNow
MaxTime == 2         \* decode inputs: timestamps range over -1 .. MaxTime + 1
MaxRetries == 4      \* client inputs: maxRetries ranges over 0 .. MaxRetries

\* ------------------------------------------------------------ JSON values
Str(s) == [t |-> "string", s |-> s]
Num(n) == [t |-> "number", n |-> n]
Undefined == [t |-> "undefined"]
Null == [t |-> "null"]

\* src/src/validator.ts
isNumber(value) == value.t \in {"number", "NaN"}   \* typeof NaN is "number"
isString(value) == value.t = "string"
isNonEmptyString(value) == isString(value) /\ value.s # ""
isArray(value) == value.t = "array"
isObject(value) == value.t \in {"object", "null"}
isNonNullObject(value) == isObject(value) /\ value.t # "null"

\* ------------------------------------------------------------ error values
JwtErrorCode == [INVALID_ARGUMENT |-> "invalid-argument",
                 INVALID_CREDENTIAL |-> "invalid-credential",
                 TOKEN_EXPIRED |-> "token-expired",
                 INVALID_SIGNATURE |-> "invalid-token",
                 NO_MATCHING_KID |-> "no-matching-kid-error",
                 NO_KID_IN_HEADER |-> "no-kid-error",
                 KEY_FETCH_ERROR |-> "key-fetch-error"]

\* The outcome of an operation: ok, or a thrown error with its class, its
\* code and the fixed part of its message.
Ok == [ok |-> TRUE, cls |-> "", code |-> "", msg |-> ""]
Thrown(cls, code, msg) == [ok |-> FALSE, cls |-> cls, code |-> code, msg |-> msg]
JwtError(code, msg) == Thrown("JwtError", code, msg)
\* reading a property of null (header.kid, payload.aud) throws a TypeError
TypeError == Thrown("TypeError", "", "Cannot read properties of null")
\* atob() on text that is no base64 throws a DOMException named
\* InvalidCharacterError, which carries no code of the library
DOMException(msg) == Thrown("DOMException", "", msg)

\* ------------------------------------------------------------ jwt-decoder
\* A raw token is modelled by what its three segments decode to:
\*   parts     the number of '.'-separated segments
\*   header    what decodeBase64JSON yields for segment 0 (Null: not JSON)
\*   payload   what decodeBase64JSON yields for segment 1 (Null: not JSON)
\*   signature what decodeBase64Url yields for segment 2
\*   signer    the private key material that produced the signature
\*   signedSelf whether the signature was made over this header.payload
\* A segment that is no base64 text is NotBase64(msg), msg being the message
\* of the DOMException atob throws on it: "Invalid character" for a character
\* outside the alphabet ('@', and the '-' and '_' of base64url), "The string
\* to be decoded is not correctly encoded." for a length of 1 modulo 4.
NotBase64(msg) == [t |-> "notBase64", msg |-> msg]
Decoded64 == [t |-> "text"]

\* decodeBase64JSON / decodeBase64Url on a segment: the exception of atob,
\* thrown outside the try of decodeBase64JSON
decodeSegment(segment) ==
    IF segment.t = "notBase64" THEN DOMException(segment.msg) ELSE Ok

decodeHeader(header) ==
    IF ~decodeSegment(header).ok THEN decodeSegment(header)
    ELSE IF header.t = "null" THEN TypeError
    ELSE IF ~isString(header.kid)
    THEN JwtError(JwtErrorCode.NO_KID_IN_HEADER, "kid must be a string but got")
    ELSE IF isString(header.alg) /\ header.alg.s # "RS256"
    THEN JwtError(JwtErrorCode.INVALID_ARGUMENT, "algorithm must be RS256 but got")
    ELSE Ok

decodePayload(payload, currentTimestamp) ==
    IF ~decodeSegment(payload).ok THEN decodeSegment(payload)
    ELSE IF payload.t = "null" THEN TypeError
    ELSE IF ~isNonEmptyString(payload.aud)
    THEN JwtError(JwtErrorCode.INVALID_ARGUMENT, "\"aud\" claim must be a string but got")
    ELSE IF ~isNonEmptyString(payload.sub)
    THEN JwtError(JwtErrorCode.INVALID_ARGUMENT, "\"sub\" claim must be a string but got")
    ELSE IF ~isNonEmptyString(payload.iss)
    THEN JwtError(JwtErrorCode.INVALID_ARGUMENT, "\"iss\" claim must be a string but got")
    ELSE IF ~isNumber(payload.iat)
    THEN JwtError(JwtErrorCode.INVALID_ARGUMENT, "\"iat\" claim must be a number but got")
    ELSE IF currentTimestamp <= payload.iat.n
    THEN JwtError(JwtErrorCode.INVALID_ARGUMENT, "Incorrect \"iat\" claim must be a older than")
    ELSE IF ~isNumber(payload.exp)
    THEN JwtError(JwtErrorCode.INVALID_ARGUMENT, "\"exp\" claim must be a number but got")
    ELSE IF currentTimestamp > payload.exp.n
    THEN JwtError(JwtErrorCode.TOKEN_EXPIRED,
                  "Incorrect \"exp\" (expiration time) claim must be a newer than")
    ELSE Ok

\* RS256Token.decode(token, currentTimestamp)
RS256Token_decode(token, currentTimestamp) ==
    IF token.parts # 3
    THEN JwtError(JwtErrorCode.INVALID_ARGUMENT, "token must consist of 3 parts")
    ELSE IF ~decodeHeader(token.header).ok THEN decodeHeader(token.header)
    ELSE IF ~decodePayload(token.payload, currentTimestamp).ok
    THEN decodePayload(token.payload, currentTimestamp)
    ELSE decodeSegment(token.signature)

\* ------------------------------------------------------------ jwk-fetcher
\* JavaScript's NaN, the result of Number() on a non-numeric string.
NaN == [t |-> "NaN"]
isNaN(x) == x.t = "NaN"

\* A number is a double. An integer below 2^31 in size is Num(n); every other
\* finite number is Float64 with the fields of its IEEE 754 encoding: the
\* sign (1 or -1), the biased exponent 0 .. 2046 and the 52 fraction bits in
\* two halves of 26 bits; the infinities are Infinity(sign). -0 is kept as 0.
Float64(sign, exponent, hi, lo) ==
    [t |-> "number", sign |-> sign, exponent |-> exponent, hi |-> hi, lo |-> lo]
Infinity(sign) == [t |-> "number", inf |-> sign]
\* value > 0 on any number value
GreaterThanZero(value) ==
    CASE "inf" \in DOMAIN value -> value.inf > 0
      [] "sign" \in DOMAIN value -> value.sign > 0
      [] OTHER -> value.n > 0

\* Number(value) of undefined or of a string, the string given as the
\* sequence of its UTF-16 code units (StringToNumber): white space and line
\* terminators around the literal are dropped, the empty string is 0, a
\* literal is 0x/0o/0b digits, or an optional sign before Infinity or before
\* a decimal literal with an optional fraction and exponent; everything else
\* is NaN. The value of the literal is rounded to the nearest double, ties to
\* even.
Number(value) ==
    IF value.t = "undefined" THEN NaN
    ELSE
    LET StrWhiteSpaceChar ==
            {9, 10, 11, 12, 13, 32, 160, 5760, 8232, 8233, 8239, 8287, 12288, 65279}
                \cup (8192 .. 8202)
        DigitValue(c) ==
            IF c \in 48 .. 57 THEN c - 48
            ELSE IF c \in 97 .. 102 THEN c - 87
            ELSE IF c \in 65 .. 70 THEN c - 55 ELSE 16
        IsDigit(c, radix) == DigitValue(c) < radix
        Radix(prefix) == CASE prefix \in {120, 88} -> 16
                           [] prefix \in {111, 79} -> 8
                           [] prefix \in {98, 66} -> 2
                           [] OTHER -> 0
        \* s without its longest prefix, suffix of characters in the set
        withoutLeading(s, set) ==
            SubSeq(s, 1 + Cardinality({i \in 1 .. Len(s) : \A j \in 1 .. i : s[j] \in set}),
                   Len(s))
        withoutTrailing(s, set) ==
            SubSeq(s, 1,
                   Len(s) - Cardinality({i \in 1 .. Len(s) : \A j \in i .. Len(s) : s[j] \in set}))
        RECURSIVE toInteger(_, _, _)
        toInteger(digits, n, radix) ==
            IF n = 0 THEN 0
            ELSE toInteger(digits, n - 1, radix) * radix + DigitValue(digits[n])
        \* -------- natural numbers of any size: the sequence of their digits
        \* in base 2^12, the least significant first, no zero at the end
        Base == 4096
        digit(a, i) == IF i >= 1 /\ i <= Len(a) THEN a[i] ELSE 0
        trimmed(a) ==
            SubSeq(a, 1, Cardinality({i \in 1 .. Len(a) : \E j \in i .. Len(a) : a[j] # 0}))
        \* the digits of a number given in places below 2 * Base: a place
        \* takes a carry when a place below it overflows and every place
        \* between the two is full
        carried(s) ==
            [i \in 1 .. Len(s) + 1 |->
                (digit(s, i)
                 + (IF \E j \in 1 .. i - 1 :
                          s[j] >= Base /\ \A m \in j + 1 .. i - 1 : s[m] = Base - 1
                    THEN 1 ELSE 0)) % Base]
        RECURSIVE total(_, _, _)
        total(f, from, to) ==
            IF from > to THEN 0
            ELSE IF from = to THEN f[from]
            ELSE total(f, from, (from + to) \div 2) + total(f, (from + to) \div 2 + 1, to)
        \* a * b, one of the two of at most 128 digits: the products of the
        \* digits place by place, each below 2^31, then their three digits
        \* added up
        products(a, b) ==
            [i \in 1 .. Len(a) + Len(b) |->
                total([j \in 1 .. Len(a) |-> a[j] * digit(b, i - j + 1)], 1, Len(a))]
        low(p) == [i \in 1 .. Len(p) |-> (p[i] % Base) + ((digit(p, i - 1) \div Base) % Base)]
        high(p, l) == [i \in 1 .. Len(l) |-> l[i] + digit(p, i - 2) \div (Base * Base)]
        withHigh(p, l) == trimmed(carried(high(p, l)))
        unfolded(p) == withHigh(p, carried(low(p)))
        times(a, b) == IF a = << >> \/ b = << >> THEN << >> ELSE unfolded(products(a, b))
        squared(a) == times(a, a)
        RECURSIVE power(_, _)
        power(r, n) == IF n = 0 THEN << 1 >>
                       ELSE times(IF n % 2 = 0 THEN << 1 >> ELSE << r >>,
                                  squared(power(r, n \div 2)))
        pow2(n) == [i \in 1 .. n \div 12 + 1 |-> IF i = n \div 12 + 1 THEN 2 ^ (n % 12) ELSE 0]
        plus(a, b) ==
            trimmed(carried([i \in 1 .. (IF Len(a) > Len(b) THEN Len(a) ELSE Len(b)) |->
                                digit(a, i) + digit(b, i)]))
        RECURSIVE natural(_, _, _, _)
        natural(digits, from, to, radix) ==
            IF from > to THEN << >>
            ELSE IF from = to THEN trimmed(<< DigitValue(digits[from]) >>)
            ELSE plus(times(natural(digits, from, (from + to) \div 2, radix),
                            power(radix, to - (from + to) \div 2)),
                      natural(digits, (from + to) \div 2 + 1, to, radix))
        atMost(a, b) ==
            ~ \E i \in 1 .. Len(a) :
                /\ a[i] > digit(b, i)
                /\ \A j \in i + 1 .. (IF Len(a) > Len(b) THEN Len(a) ELSE Len(b)) :
                       digit(a, j) = digit(b, j)
        bitLength(a) ==
            IF a = << >> THEN 0
            ELSE 12 * (Len(a) - 1)
                 + (CHOOSE w \in 1 .. 12 : a[Len(a)] \in 2 ^ (w - 1) .. 2 ^ w - 1)
        bit(a, i) == (digit(a, (i - 1) \div 12 + 1) \div (2 ^ ((i - 1) % 12))) % 2
        RECURSIVE field(_, _, _)
        field(a, from, width) ==
            IF width = 0 THEN 0 ELSE bit(a, from) + 2 * field(a, from + 1, width - 1)
        \* floor(n / d) for a quotient below 2^72, one hexadecimal digit at a
        \* time from the highest down
        withDigit(q, i, c) == [q EXCEPT ![(i - 1) \div 3 + 1] = @ + c * 16 ^ ((i - 1) % 3)]
        nextDigit(q, n, d, i) ==
            withDigit(q, i,
                      Cardinality({c \in 1 .. 15 : atMost(times(withDigit(q, i, c), d), n)}))
        RECURSIVE quotient(_, _, _, _)
        quotient(n, d, i, highest) ==
            IF i > highest THEN << 0, 0, 0, 0, 0, 0 >>
            ELSE nextDigit(quotient(n, d, i + 1, highest), n, d, i)
        \* -------- the double nearest to sign * n / d * 2^e: n or d is scaled
        \* by a power of two to a quotient q of 60 to 62 bits, and the bits of
        \* q below the last kept one and the remainder decide the rounding
        number(sign, exponent, hi, lo) ==
            IF exponent >= 2047 THEN Infinity(sign)
            ELSE IF exponent = 0 /\ hi = 0 /\ lo = 0 THEN Num(0)
            ELSE IF /\ exponent \in 1023 .. 1049 /\ lo = 0
                    /\ hi % (2 ^ (1049 - exponent)) = 0
            THEN Num(sign * (2 ^ (exponent - 1023) + hi \div (2 ^ (1049 - exponent))))
            ELSE IF exponent \in 1050 .. 1053 /\ lo % (2 ^ (1075 - exponent)) = 0
            THEN Num(sign * (2 ^ (exponent - 1023) + hi * (2 ^ (exponent - 1049))
                             + lo \div (2 ^ (1075 - exponent))))
            ELSE Float64(sign, exponent, hi, lo)
        rounded(sign, exponent, hi, lo, up) ==
            number(sign,
                   exponent + (IF up /\ lo = 2 ^ 26 - 1 /\ hi = 2 ^ 26 - 1 THEN 1 ELSE 0),
                   IF up /\ lo = 2 ^ 26 - 1 THEN (hi + 1) % (2 ^ 26) ELSE hi,
                   IF up THEN (lo + 1) % (2 ^ 26) ELSE lo)
        kept(sign, q, inexact, exponent, dropped) ==
            rounded(sign, exponent, field(q, dropped + 27, 26), field(q, dropped + 1, 26),
                    /\ bit(q, dropped) = 1
                    /\ \/ inexact
                       \/ \E i \in 1 .. dropped - 1 : bit(q, i) = 1
                       \/ bit(q, dropped + 1) = 1)
        binary(sign, q, inexact, x, length) ==
            kept(sign, q, inexact,
                 IF length - 1 + x >= -1022 THEN length + x + 1022 ELSE 0,
                 IF length - 1 + x >= -1022 THEN length - 53 ELSE (-1074) - x)
        divided(sign, n, d, x, q) == binary(sign, q, times(q, d) # n, x, bitLength(q))
        ratio(sign, n, d, x) ==
            divided(sign, n, d, x,
                    trimmed(quotient(n, d, 1, (bitLength(n) - bitLength(d)) \div 4 + 1)))
        scaled(sign, n, d, e, by) ==
            ratio(sign, times(n, pow2(IF by >= 0 THEN by ELSE 0)),
                  times(d, pow2(IF by >= 0 THEN 0 ELSE -by)), e - by)
        nearest(sign, n, d, e) == scaled(sign, n, d, e, bitLength(d) - bitLength(n) + 60)
        \* -------- sign * digits * 10^e for digits in the radix without
        \* leading zeros (e is 0 unless the radix is 10); a value of at least
        \* 10^309 is beyond the largest double and one below 10^-323 is less
        \* than half of the smallest
        MaxDigits(radix) == CASE radix = 16 -> 7 [] radix = 10 -> 9 [] radix = 8 -> 10
                              [] OTHER -> 30
        digitsValue(sign, digits, radix, e) ==
            IF digits = << >> THEN Num(0)
            ELSE IF e >= 0 /\ Len(digits) + e <= MaxDigits(radix)
            THEN Num(sign * toInteger(digits, Len(digits), radix) * 10 ^ e)
            ELSE IF radix = 10 /\ Len(digits) + e > 309 THEN Infinity(sign)
            ELSE IF radix = 10 /\ Len(digits) + e < -323 THEN Num(0)
            ELSE nearest(sign,
                         times(natural(digits, 1, Len(digits), radix),
                               power(5, IF e >= 0 THEN e ELSE 0)),
                         power(5, IF e >= 0 THEN 0 ELSE -e), e)
        \* -------- StrDecimalLiteral: digits with at most one point among
        \* them, then an optional e or E with an optional sign and digits; an
        \* exponent beyond any double is kept as a million
        IsDigits(s) == s # << >> /\ \A i \in 1 .. Len(s) : IsDigit(s[i], 10)
        exponentOf(sign, digits) ==
            IF Len(digits) > 6 THEN sign * 1000000
            ELSE sign * toInteger(digits, Len(digits), 10)
        exponent(s) ==
            IF s # << >> /\ s[1] \in {43, 45}
            THEN [digits |-> Tail(s), sign |-> IF s[1] = 45 THEN -1 ELSE 1]
            ELSE [digits |-> s, sign |-> 1]
        mantissa(s) ==
            [digits |-> SelectSeq(s, LAMBDA c : c # 46),
             fracLen |-> IF \E i \in 1 .. Len(s) : s[i] = 46
                         THEN Len(s) - Len(withoutTrailing(s, 48 .. 57)) ELSE 0,
             wellFormed |-> /\ SelectSeq(s, LAMBDA c : c # 46) # << >>
                            /\ Len(s) - Len(SelectSeq(s, LAMBDA c : c # 46)) <= 1]
        \* the literal cut at its first character that is no digit and no point
        parts(s, at) ==
            IF at > Len(s)
            THEN [m |-> mantissa(s), marked |-> TRUE, e |-> [digits |-> << 48 >>, sign |-> 1]]
            ELSE [m |-> mantissa(SubSeq(s, 1, at - 1)), marked |-> s[at] \in {101, 69},
                  e |-> exponent(SubSeq(s, at + 1, Len(s)))]
        decimal(sign, lit) ==
            IF lit.marked /\ lit.m.wellFormed /\ IsDigits(lit.e.digits)
            THEN [sign |-> sign, radix |-> 10, digits |-> withoutLeading(lit.m.digits, {48}),
                  e |-> exponentOf(lit.e.sign, withoutLeading(lit.e.digits, {48}))
                        - lit.m.fracLen]
            ELSE NaN
        signed(sign, s) ==
            IF s = << 73, 110, 102, 105, 110, 105, 116, 121 >> THEN Infinity(sign)
            ELSE decimal(sign,
                         parts(s, 1 + Len(s) - Len(withoutLeading(s, (48 .. 57) \cup {46}))))
        \* the literal read: NaN, an infinity, or digits still to convert
        literal(str) ==
            IF str = << >> THEN Num(0)
            ELSE IF Len(str) >= 2 /\ str[1] = 48 /\ Radix(str[2]) # 0
            THEN IF /\ Len(str) >= 3
                    /\ \A i \in 3 .. Len(str) : IsDigit(str[i], Radix(str[2]))
                 THEN [sign |-> 1, radix |-> Radix(str[2]), e |-> 0,
                       digits |-> withoutLeading(SubSeq(str, 3, Len(str)), {48})]
                 ELSE NaN
            ELSE signed(IF str[1] = 45 THEN -1 ELSE 1,
                        IF str[1] \in {43, 45} THEN Tail(str) ELSE str)
        converted(lit) ==
            IF "digits" \in DOMAIN lit
            THEN digitsValue(lit.sign, lit.digits, lit.radix, lit.e)
            ELSE lit
        trimmedString(s) == withoutTrailing(withoutLeading(s, StrWhiteSpaceChar),
                                            StrWhiteSpaceChar)
    IN  converted(literal(trimmedString(value.s)))

\* A Cache-Control header is the sequence of its ','-separated, trimmed
\* parts, each the sequence of its '='-separated sub-parts: the name of the
\* directive, then its value as the sequence of its UTF-16 code units; Null
\* when the response has no such header.
RECURSIVE parseMaxAgeFrom(_, _)
parseMaxAgeFrom(parts, i) ==
    IF i > Len(parts) THEN NaN
    ELSE IF parts[i][1] # "max-age" THEN parseMaxAgeFrom(parts, i + 1)
    ELSE Number(IF Len(parts[i]) >= 2 THEN Str(parts[i][2]) ELSE Undefined)

parseMaxAge(cacheControlHeader) ==
    IF cacheControlHeader = Null THEN NaN
    ELSE parseMaxAgeFrom(cacheControlHeader.parts, 1)

\* A JSON object is [t |-> "object", fields |-> <<[k |-> name, v |-> value], ...>>]
\* in insertion order (Object.values / Object.entries order).
Get(obj, name) ==
    IF \E i \in 1 .. Len(obj.fields) : obj.fields[i].k = name
    THEN obj.fields[CHOOSE i \in 1 .. Len(obj.fields) : obj.fields[i].k = name].v
    ELSE Undefined

\* !!value
Truthy(value) ==
    CASE value.t \in {"undefined", "null", "NaN"} -> FALSE
      [] value.t = "string" -> value.s # ""
      [] value.t = "number" -> value.n # 0
      [] OTHER -> TRUE

isX509Certificates(value) ==
    /\ isNonNullObject(value)
    /\ \A i \in 1 .. Len(value.fields) : value.fields[i].v.t = "string"

isJWKMetadata(value) ==
    /\ isNonNullObject(value)
    /\ Truthy(Get(value, "keys"))
    /\ isArray(Get(value, "keys"))

\* A public key record (JsonWebKeyWithKid): its kid, the key material (n, e)
\* and whether crypto.subtle.importKey accepts it as an RS256 verify key.
Key(kid, mat, importable) == [kid |-> kid, mat |-> mat, importable |-> importable]

\* new crypto.X509Certificate(pem) parses the certificate; the key material
\* of the PEM strings the endpoint serves, "" for a string that is no
\* certificate (the constructor throws).
PemMaterial(pem) ==
    CASE pem = "pemA" -> "A"
      [] pem = "pemB" -> "B"
      [] OTHER -> ""

x509ToJwk(pem, kid) == Key(kid, PemMaterial(pem), TRUE)

\* JSON.stringify(jwks) and the KV store's get(key, 'json'): the stored text
\* carries the array; reading it back yields a JSON array value.
JSON_stringify(keys) == [json |-> keys]
JSON_parse(text) == [t |-> "array", items |-> text.json]

\* KeyStorer.get(): null when the entry is absent, else the parsed value.
KVGet(entry) ==
    IF entry.t = "stored" THEN JSON_parse(entry.text) ELSE entry

\* KeyStorer.put(value, expirationTtl)
KVPut(value, expirationTtl) == [t |-> "stored", text |-> value, ttl |-> expirationTtl]

\* Which response bodies refresh accepts and what key list it builds, per
\* revision of UrlKeyFetcher: "x509" is the certificate-map revision
\* (jwk-fetcher.ts 25-91), "jwk" the key-set revision (jwk-fetcher.ts 144-186).
acceptsBody(rev, publicKeys) ==
    IF rev = "x509" THEN isX509Certificates(publicKeys) ELSE isJWKMetadata(publicKeys)

keysOf(rev, publicKeys) ==
    IF rev = "x509"
    THEN [i \in 1 .. Len(publicKeys.fields) |->
             x509ToJwk(publicKeys.fields[i].v.s, publicKeys.fields[i].k)]
    ELSE Get(publicKeys, "keys").items

\* the condition under which refresh stores the keys
storesKeys(rev, maxAge) ==
    IF rev = "x509" THEN ~isNaN(maxAge) /\ GreaterThanZero(maxAge) ELSE ~isNaN(maxAge)

NoPut == [done |-> FALSE]
FetchResult(res, keys, fetched, put) ==
    [res |-> res, keys |-> keys, fetched |-> fetched, put |-> put]

\* UrlKeyFetcher.refresh(): one HTTP fetch of the endpoint's response resp.
refresh(rev, resp) ==
    IF ~resp.ok
    THEN FetchResult(Thrown("Error", "", "Error fetching public keys for Google certs: "),
                     <<>>, 1, NoPut)
    ELSE IF resp.body.t = "invalid"
    THEN FetchResult(Thrown("SyntaxError", "", "Unexpected token"), <<>>, 1, NoPut)
    ELSE IF ~acceptsBody(rev, resp.body)
    THEN FetchResult(Thrown("Error", "", "The public keys are not an object or null: "),
                     <<>>, 1, NoPut)
    ELSE LET jwks == keysOf(rev, resp.body)
             maxAge == parseMaxAge(resp.cc)
         IN  IF rev = "x509" /\ \E i \in 1 .. Len(jwks) : jwks[i].mat = ""
             THEN FetchResult(Thrown("Error", "ERR_OSSL_PEM_NO_START_LINE", "error"),
                              <<>>, 1, NoPut)
             ELSE FetchResult(Ok, jwks, 1,
                     IF storesKeys(rev, maxAge)
                     THEN [done |-> TRUE, value |-> JSON_stringify(jwks), ttl |-> maxAge]
                     ELSE NoPut)

\* A fetcher that ignores its cache (the variant the cache claims exclude).
fetchPublicKeysAlwaysRefresh(rev, entry, resp) == refresh(rev, resp)

\* UrlKeyFetcher.fetchPublicKeys(): the cached value, or a refresh when the
\* cache yields null or a non-object.
fetchPublicKeys(rev, entry, resp) ==
    LET publicKeys == KVGet(entry)
    IN  IF publicKeys.t = "null" \/ publicKeys.t \notin {"object", "array"}
        THEN refresh(rev, resp)
        ELSE FetchResult(Ok, publicKeys.items, 0, NoPut)

\* A cache that keeps the value it already holds (first write wins).
KVAfterFirstWriteWins(entry, out) ==
    IF out.put.done /\ entry = Null THEN KVPut(out.put.value, out.put.ttl) ELSE entry

\* the cache entry after a call with the given outcome
KVAfter(entry, out) ==
    IF out.put.done THEN KVPut(out.put.value, out.put.ttl) ELSE entry

\* ------------------------------------------------------------ jws-verifier
\* crypto.subtle.verify(rs256alg, key, signature, headerPayloadBytes)
cryptoVerify(publicKey, token) ==
    publicKey.mat = token.signer /\ token.signedSelf

\* A verifier that goes on to later keys with the same kid after a failure
\* (the variant the first-match claim excludes).
RECURSIVE verifyTryingLaterKeys(_, _, _)
verifyTryingLaterKeys(publicKeys, token, i) ==
    IF i > Len(publicKeys)
    THEN IF \E j \in 1 .. Len(publicKeys) : publicKeys[j].kid = token.header.kid.s
         THEN [ok |-> FALSE, cls |-> "JwtError", code |-> JwtErrorCode.INVALID_SIGNATURE,
               msg |-> "The token signature is invalid."]
         ELSE [ok |-> FALSE, cls |-> "JwtError", code |-> JwtErrorCode.NO_MATCHING_KID,
               msg |-> "The token does not match the kid."]
    ELSE IF /\ publicKeys[i].kid = token.header.kid.s
            /\ publicKeys[i].importable
            /\ publicKeys[i].mat = token.signer /\ token.signedSelf
    THEN Ok
    ELSE verifyTryingLaterKeys(publicKeys, token, i + 1)

RECURSIVE verifyFrom(_, _, _)
verifyFrom(publicKeys, token, i) ==
    IF i > Len(publicKeys)
    THEN JwtError(JwtErrorCode.NO_MATCHING_KID, "The token does not match the kid.")
    ELSE IF publicKeys[i].kid # token.header.kid.s
    THEN verifyFrom(publicKeys, token, i + 1)
    ELSE IF ~publicKeys[i].importable
    THEN JwtError(JwtErrorCode.INVALID_SIGNATURE, "Error verifying signature: ")
    ELSE IF cryptoVerify(publicKeys[i], token)
    THEN Ok
    ELSE JwtError(JwtErrorCode.INVALID_SIGNATURE, "The token signature is invalid.")

\* PublicKeySignatureVerifier.verify(token), given the outcome of
\* this.keyFetcher.fetchPublicKeys()
PublicKeySignatureVerifier_verify(token, fetched) ==
    IF ~fetched.res.ok
    THEN JwtError(JwtErrorCode.KEY_FETCH_ERROR, "Error fetching public keys for Google certs: ")
    ELSE verifyFrom(fetched.keys, token, 1)

\* ------------------------------------------------------------ token-verifier
FIREBASE_AUDIENCE ==
    "https://identitytoolkit.googleapis.com/google.identity.identitytoolkit.v1.IdentityToolkit"

\* AuthClientErrorCode entries used by the verifier
AuthClientErrorCode ==
    [INVALID_ARGUMENT |-> "argument-error",
     ID_TOKEN_EXPIRED |-> "id-token-expired",
     INVALID_ID_TOKEN |-> "invalid-id-token",
     ID_TOKEN_REVOKED |-> "id-token-revoked",
     INTERNAL_ERROR |-> "internal-error",
     USER_NOT_FOUND |-> "user-not-found",
     USER_DISABLED |-> "user-disabled",
     SESSION_COOKIE_EXPIRED |-> "session-cookie-expired",
     SESSION_COOKIE_REVOKED |-> "session-cookie-revoked",
     INVALID_SESSION_COOKIE_DURATION |-> "invalid-session-cookie-duration",
     INVALID_UID |-> "invalid-uid",
     INVALID_TOKENS_VALID_AFTER_TIME |-> "invalid-tokens-valid-after-time"]

\* new FirebaseAuthError(info, message): the code carries the auth/ prefix
FirebaseAuthError(code, msg) == Thrown("FirebaseAuthError", "auth/" \o code, msg)

ID_TOKEN_INFO ==
    [verifyApiName |-> "verifyIdToken()", jwtName |-> "Firebase ID token",
     shortName |-> "ID token", expiredErrorCode |-> AuthClientErrorCode.ID_TOKEN_EXPIRED]
SESSION_COOKIE_INFO ==
    [verifyApiName |-> "verifySessionCookie()", jwtName |-> "Firebase session cookie",
     shortName |-> "session cookie",
     expiredErrorCode |-> AuthClientErrorCode.SESSION_COOKIE_EXPIRED]

\* baseCreateIdTokenVerifier / baseCreateSessionCookieVerifier: new
\* FirebaseTokenVerifier with the issuer and the tokenInfo of the kind. The
\* constructor throws when projectID is no non-empty string (its checks of the
\* issuer and of tokenInfo pass for these two); otherwise the result is the
\* verifier's projectId, issuer and tokenInfo.
baseCreateIdTokenVerifier(projectID) ==
    IF ~isNonEmptyString(projectID)
    THEN FirebaseAuthError(AuthClientErrorCode.INVALID_ARGUMENT,
                           "Your Firebase project ID must be a non-empty string")
    ELSE [projectId |-> projectID.s, issuer |-> "https://securetoken.google.com/",
          tokenInfo |-> ID_TOKEN_INFO]
baseCreateSessionCookieVerifier(projectID) ==
    IF ~isNonEmptyString(projectID)
    THEN FirebaseAuthError(AuthClientErrorCode.INVALID_ARGUMENT,
                           "Your Firebase project ID must be a non-empty string")
    ELSE [projectId |-> projectID.s, issuer |-> "https://session.firebase.google.com/",
          tokenInfo |-> SESSION_COOKIE_INFO]

\* clockSkewSeconds as a JS number: n when frac is FALSE, n + 0.5 otherwise
Skew(n, frac) == [n |-> n, frac |-> frac]
Number_isInteger(x) == ~x.frac
MaxClockSkewSeconds == 60

\* FirebaseTokenVerifier.safeDecode: every decode failure becomes an
\* argument error
safeDecode(this, jwtToken, currentTimestamp) ==
    LET decoded == RS256Token_decode(jwtToken, currentTimestamp)
    IN  IF decoded.ok
        THEN Ok
        ELSE FirebaseAuthError(AuthClientErrorCode.INVALID_ARGUMENT,
                               "Decoding " \o this.tokenInfo.jwtName \o " failed.")

MaxSubLength == 128

\* A payload check that lets every decoded payload through (the variant the
\* payload-policy claim excludes).
acceptAnyPayload(this, payload, currentTimestamp) == Ok

\* FirebaseTokenVerifier.verifyPayload
verifyPayload(this, payload, currentTimestamp) ==
    IF payload.aud.s # this.projectId /\ payload.aud.s # FIREBASE_AUDIENCE
    THEN FirebaseAuthError(AuthClientErrorCode.INVALID_ARGUMENT,
            this.tokenInfo.jwtName \o " has incorrect \"aud\" (audience) claim.")
    ELSE IF payload.iss.s # this.issuer \o this.projectId
    THEN FirebaseAuthError(AuthClientErrorCode.INVALID_ARGUMENT,
            this.tokenInfo.jwtName \o " has incorrect \"iss\" (issuer) claim.")
    ELSE IF Len(payload.sub.s) > MaxSubLength
    THEN FirebaseAuthError(AuthClientErrorCode.INVALID_ARGUMENT,
            this.tokenInfo.jwtName
                \o " has \"sub\" (subject) claim longer than 128 characters.")
    ELSE IF payload.auth_time.t # "number"
    THEN FirebaseAuthError(AuthClientErrorCode.INVALID_ARGUMENT,
            this.tokenInfo.jwtName \o " has no \"auth_time\" claim.")
    ELSE IF currentTimestamp < payload.auth_time.n
    THEN FirebaseAuthError(AuthClientErrorCode.INVALID_ARGUMENT,
            this.tokenInfo.jwtName \o " has incorrect \"auth_time\" claim.")
    ELSE Ok

\* FirebaseTokenVerifier.mapJwtErrorToAuthError
mapJwtErrorToAuthError(this, error) ==
    IF error.code = JwtErrorCode.TOKEN_EXPIRED
    THEN FirebaseAuthError(this.tokenInfo.expiredErrorCode,
                           this.tokenInfo.jwtName \o " has expired.")
    ELSE IF error.code = JwtErrorCode.INVALID_SIGNATURE
    THEN FirebaseAuthError(AuthClientErrorCode.INVALID_ARGUMENT,
                           this.tokenInfo.jwtName \o " has invalid signature.")
    ELSE IF error.code = JwtErrorCode.NO_MATCHING_KID
    THEN FirebaseAuthError(AuthClientErrorCode.INVALID_ARGUMENT,
            this.tokenInfo.jwtName
                \o " has \"kid\" claim which does not correspond to a known public key.")
    ELSE FirebaseAuthError(AuthClientErrorCode.INVALID_ARGUMENT, error.msg)

\* EmulatorSignatureVerifier.verify: accepts every token
EmulatorSignatureVerifier_verify(token) == Ok

\* A verifier choice that ignores the emulator flag's value (the variant the
\* signature claim excludes).
alwaysEmulatorVerifier(isEmulator) == "emulator"

\* FirebaseTokenVerifier.verifySignature: the verifier it picks
verifierFor(isEmulator) == IF isEmulator THEN "emulator" ELSE "publicKey"

NoFetch == FetchResult(Ok, <<>>, 0, NoPut)
Outcome(stage, res, currentTimestamp, verifier, sig, out) ==
    [stage |-> stage, res |-> res, currentTimestamp |-> currentTimestamp,
     verifier |-> verifier, sig |-> sig, out |-> out]

\* A verifier that checks the signature, and so fetches the keys, before it
\* applies the payload policy.
verifySignatureBeforePayload(this, token, isEmulator, clockSkewSeconds, clock, rev, entry, resp) ==
    LET currentTimestamp == clock + clockSkewSeconds
        decoded == safeDecode(this, token, currentTimestamp)
        policy == verifyPayload(this, token.payload, currentTimestamp)
        verifier == verifierFor(isEmulator)
        out == IF verifier = "emulator" THEN NoFetch ELSE fetchPublicKeys(rev, entry, resp)
        sig == IF verifier = "emulator"
               THEN EmulatorSignatureVerifier_verify(token)
               ELSE PublicKeySignatureVerifier_verify(token, out)
    IN  IF ~decoded.ok
        THEN Outcome("decode", decoded, currentTimestamp, "none", Ok, NoFetch)
        ELSE IF ~sig.ok
        THEN Outcome("signature", mapJwtErrorToAuthError(this, sig), currentTimestamp,
                     verifier, sig, out)
        ELSE IF ~policy.ok
        THEN Outcome("payload", policy, currentTimestamp, verifier, sig, out)
        ELSE Outcome("done", Ok, currentTimestamp, verifier, sig, out)

\* FirebaseTokenVerifier.decodeAndVerify, with the wall clock (in seconds),
\* the cache entry and the endpoint's response it runs against
decodeAndVerify(this, token, isEmulator, clockSkewSeconds, clock, rev, entry, resp) ==
    LET currentTimestamp == clock + clockSkewSeconds
        verifier == verifierFor(isEmulator)
        \* the outcome, given what safeDecode, verifyPayload, fetchPublicKeys
        \* and the signature verifier have returned
        settled(decoded, policy, out, sig) ==
            IF ~decoded.ok
            THEN Outcome("decode", decoded, currentTimestamp, "none", Ok, NoFetch)
            ELSE IF ~policy.ok
            THEN Outcome("payload", policy, currentTimestamp, "none", Ok, NoFetch)
            ELSE IF ~sig.ok
            THEN Outcome("signature", mapJwtErrorToAuthError(this, sig), currentTimestamp,
                         verifier, sig, out)
            ELSE Outcome("done", Ok, currentTimestamp, verifier, sig, out)
        verifySignature(out) ==
            settled(safeDecode(this, token, currentTimestamp),
                    verifyPayload(this, token.payload, currentTimestamp),
                    out,
                    IF verifier = "emulator"
                    THEN EmulatorSignatureVerifier_verify(token)
                    ELSE PublicKeySignatureVerifier_verify(token, out))
    IN  verifySignature(IF verifier = "emulator" THEN NoFetch
                        ELSE fetchPublicKeys(rev, entry, resp))

\* FirebaseTokenVerifier.verifyJWT
verifyJWT(this, jwtToken, isEmulator, clockSkewSeconds, clock, rev, entry, resp) ==
    IF ~isString(jwtToken)
    THEN Outcome("argument",
                 FirebaseAuthError(AuthClientErrorCode.INVALID_ARGUMENT,
                    "First argument to " \o this.tokenInfo.verifyApiName \o " must be a "
                        \o this.tokenInfo.jwtName \o " string."),
                 clock, "none", Ok, NoFetch)
    ELSE IF \/ clockSkewSeconds.n < 0
            \/ clockSkewSeconds.n > MaxClockSkewSeconds
            \/ (clockSkewSeconds.n = MaxClockSkewSeconds /\ clockSkewSeconds.frac)
            \/ ~Number_isInteger(clockSkewSeconds)
    THEN Outcome("argument",
                 FirebaseAuthError(AuthClientErrorCode.INVALID_ARGUMENT,
                    "clockSkewSeconds must be an integer between 0 and 60."),
                 clock, "none", Ok, NoFetch)
    ELSE decodeAndVerify(this, jwtToken, isEmulator, 0, clock, rev, entry, resp)

\* ------------------------------------------------------------ inputs
ProjectId == "projectId1234"
IdTokenIssuer == "https://securetoken.google.com/"
SessionCookieIssuer == "https://session.firebase.google.com/"

Header(kid, alg) == [t |-> "object", kid |-> kid, alg |-> alg]
Payload(aud, sub, iss, iat, exp, auth_time) ==
    [t |-> "object", aud |-> aud, sub |-> sub, iss |-> iss,
     iat |-> iat, exp |-> exp, auth_time |-> auth_time]
Token(parts, header, payload, signer, signedSelf) ==
    [t |-> "string", parts |-> parts, header |-> header, payload |-> payload,
     signature |-> Decoded64, signer |-> signer, signedSelf |-> signedSelf]
\* the segments atob rejects
BadSegments ==
    {NotBase64("Invalid character"),
     NotBase64("The string to be decoded is not correctly encoded.")}

NoCall == [op |-> "none"]
NoOrigin == [ok |-> FALSE, body |-> Null, cc |-> Null]

\* Inputs of the pure decoder: every combination of the header and payload
\* shapes the decoder distinguishes, with timestamps around currentTimestamp.
DecodeTimes == {Undefined, Str("1")} \cup {Num(n) : n \in -1 .. MaxTime + 1}
DecodeHeaders ==
    {Null} \cup BadSegments \cup {Header(kid, alg) : kid \in {Undefined, Str(""), Str("kid123456"), Num(1)},
                                    alg \in {Undefined, Str("RS256"), Str("HS256"), Num(256)}}
DecodePayloads ==
    {Null} \cup BadSegments \cup {Payload(aud, sub, iss, iat, exp, Undefined) :
                    aud \in {Str(ProjectId), Str(""), Undefined},
                    sub \in {Str("userId12345"), Str("")},
                    iss \in {Str(IdTokenIssuer \o ProjectId), Undefined},
                    iat \in DecodeTimes, exp \in DecodeTimes}
DecodeTokens ==
    {[Token(parts, header, payload, "A", TRUE) EXCEPT !.signature = signature] :
        parts \in {1, 3, 4}, header \in DecodeHeaders, payload \in DecodePayloads,
        signature \in {Decoded64} \cup BadSegments}

\* ------------------------------------------------------------ SpecDecode
\* The pure decoder applied to inputs drawn at Init.
InitDecode ==
    /\ pending = NonePending
    /\ now = 0
    /\ cfg = [kind |-> "idToken", rev |-> "x509"]
    /\ kv = Null
    /\ origin = NoOrigin
    /\ call = NoCall
    /\ \E token \in DecodeTokens, ts \in 0 .. MaxTime :
          req = [op |-> "decode", jwt |-> token, currentTimestamp |-> ts]

Decode ==
    /\ req.op = "decode"
    /\ call = NoCall
    /\ call' = [op |-> "decode", jwt |-> req.jwt, currentTimestamp |-> req.currentTimestamp,
                res |-> RS256Token_decode(req.jwt, req.currentTimestamp)]
    /\ UNCHANGED <<pending, now, cfg, req, kv, origin>>

NextDecode == Decode
SpecDecode == InitDecode /\ [][NextDecode]_vars

\* ------------------------------------------------------------ SpecKeys
\* The key fetcher, its cache and the signature verifier.
Parts(ps) == [parts |-> ps]
CacheControlHeaders ==
    { Null,
      Parts(<< <<"public">> >>),
      Parts(<< <<"public">>, <<"max-age", << 49, 56, 55, 57, 51 >> >>, <<"must-revalidate">>, <<"no-transform">> >>),
      Parts(<< <<"max-age", << 54, 48 >> >> >>),
      Parts(<< <<"max-age", << 54, 48, 52, 56, 48, 48 >> >> >>),
      Parts(<< <<"max-age", << 32, 54, 48 >> >> >>),
      Parts(<< <<"max-age", << 160, 54, 48 >> >> >>),
      Parts(<< <<"max-age", << 49, 101, 45, 52, 48, 48 >> >> >>),
      Parts(<< <<"max-age", << 49, 101, 50 >> >> >>),
      Parts(<< <<"max-age", << 48, 120, 49, 48 >> >> >>),
      Parts(<< <<"max-age", << 48 >> >> >>),
      Parts(<< <<"max-age", << 45, 53 >> >> >>),
      Parts(<< <<"max-age", << 104, 101, 108, 108, 111 >> >> >>),
      Parts(<< <<"max-age", << >> >> >>),
      Parts(<< <<"max-age">> >>),
      Parts(<< <<"Max-Age", << 54, 48 >> >> >>),
      Parts(<< <<"max-age", << 104, 101, 108, 108, 111 >> >>, <<"max-age", << 54, 48 >> >> >>) }

Object(fields) == [t |-> "object", fields |-> fields]
Array(items) == [t |-> "array", items |-> items]
Field(k, v) == [k |-> k, v |-> v]

GoodCerts == Object(<< Field("k1", Str("pemA")), Field("k2", Str("pemB")) >>)
RotatedCerts == Object(<< Field("k2", Str("pemB")), Field("k3", Str("pemA")) >>)
GoodKeySet ==
    Object(<< Field("keys", Array(<< Key("k1", "B", TRUE), Key("k1", "A", TRUE),
                                     Key("k2", "A", FALSE) >>)) >>)
RotatedKeySet == Object(<< Field("keys", Array(<< Key("k1", "A", TRUE) >>)) >>)
GoodBodies == {GoodCerts, RotatedCerts, GoodKeySet, RotatedKeySet}
OtherBodies ==
    { Object(<< >>),
      Object(<< Field("k1", Str("")) >>),
      Object(<< Field("k1", Str("pemA")), Field("k2", Num(1)) >>),
      Object(<< Field("keys", Str("notArray")) >>),
      Object(<< Field("keys", Array(<< >>)) >>),
      Str("text"), Null, Array(<< >>), [t |-> "invalid"] }

Response(ok, body, cc) == [ok |-> ok, body |-> body, cc |-> cc]
Origins ==
    {Response(TRUE, b, h) : b \in {GoodCerts, GoodKeySet}, h \in CacheControlHeaders}
    \cup {Response(TRUE, b, h) :
            b \in OtherBodies, h \in {Null, Parts(<< <<"max-age", << 54, 48 >> >> >>)}}
    \cup {Response(FALSE, Str("Internal Server Error"), Null)}

\* the endpoint responses of the verifier tests
GoodBody(rev) == IF rev = "x509" THEN GoodCerts ELSE GoodKeySet
VerifierOrigins(rev) ==
    { Response(TRUE, GoodBody(rev), Parts(<< <<"max-age", << 54, 48 >> >> >>)),
      Response(TRUE, GoodBody(rev), Null),
      Response(FALSE, Str("Internal Server Error"), Null) }

ValidPayload(aud, iat, exp, auth_time) ==
    Payload(Str(aud), Str("userId12345"), Str(IdTokenIssuer \o ProjectId),
            Num(iat), Num(exp), Num(auth_time))
SigTokens ==
    {Token(3, Header(Str(kid), Str("RS256")), ValidPayload(ProjectId, -1, MaxNow + 2, -1),
           signer, signedSelf) :
        kid \in {"k1", "k2", "k3"}, signer \in {"A", "B"}, signedSelf \in BOOLEAN}

InitKeys ==
    /\ pending = NonePending
    /\ now = 0
    /\ kv = Null
    /\ call = NoCall
    /\ req \in {[op |-> "fetchPublicKeys"]} \cup {[op |-> "verify", jwt |-> token] : token \in SigTokens}
    /\ \E rev \in {"x509", "jwk"} :
          \/ /\ cfg = [kind |-> "idToken", rev |-> rev, callers |-> 1]
             /\ origin \in Origins
             /\ req.op = "verify" =>
                   origin.cc \in {Null, Parts(<< <<"max-age", << 54, 48 >> >> >>)}
          \/ /\ cfg = [kind |-> "idToken", rev |-> rev, callers |-> 2]
             /\ origin \in VerifierOrigins(rev)
             /\ req.op = "verify" =>
                   /\ req.jwt.header.kid = Str("k1")
                   /\ req.jwt.signer = "A" /\ req.jwt.signedSelf

\* A call stands at one await at a time. The positions are the awaits on an
\* operation of the runtime (the KV store, fetch, a response body, the crypto
\* functions, a timer); an await on one of the library's own async functions is
\* the position of the await that function stands at. A call that fetches the
\* public keys stands, one after the other, at
\*   "get"         await this.keyStorer.get()
\*   "fetch"       await this.fetcher.fetch()
\*   "text"        await resp.text() of a response that is not ok
\*   "json"        await resp.json()
\*   "certImport"  await crypto.subtle.importKey('spki', ...) of x509ToJwk for
\*                 the certificate at index cert of the response
\*   "certExport"  await crypto.subtle.exportKey('jwk', cryptoKey) for it
\*   "put"         await this.keyStorer.put(), the write not yet applied
\*   "importKey"   await crypto.subtle.importKey('jwk', publicJWK, ...) of
\*                 verifySignature for the first key with the token's kid
\*   "verify"      await crypto.subtle.verify(...) with that key
\*   "return"      the promise of the call has settled and the caller has yet
\*                 to go on
\* entry is what the get returned, resp the response fetch resolved with, out
\* the outcome of fetchPublicKeys once it has settled, after the cache entry
\* the call left (its own write, or the entry it read).
KeysCall(op) ==
    [pc |-> "get", op |-> op, entry |-> Null, resp |-> NoOrigin, cert |-> 0,
     out |-> NoFetch, after |-> Null]

\* the index of the first of publicKeys with the kid of the token's header, 0
\* when no key has it (the loop of PublicKeySignatureVerifier.verify)
firstKeyWithKid(publicKeys, token) ==
    LET matching == {i \in 1 .. Len(publicKeys) : publicKeys[i].kid = token.header.kid.s}
    IN  IF matching = {} THEN 0
        ELSE CHOOSE i \in matching : \A j \in matching : i <= j

\* fetchPublicKeys() of the call c has settled. A fetchPublicKeys call returns;
\* a verification whose key fetch failed, or whose token's kid no key has,
\* rejects; any other verification calls verifySignature(token, publicKey),
\* which awaits importKey.
KeysSettled(c) ==
    LET goesOn(out) ==
            [c EXCEPT !.out = out,
                      !.pc = IF c.op = "fetchPublicKeys" \/ ~out.res.ok THEN "return"
                             ELSE IF firstKeyWithKid(out.keys, c.jwt) = 0 THEN "return"
                             ELSE "importKey"]
    IN  goesOn(fetchPublicKeys(cfg.rev, c.entry, c.resp))

\* refresh() of the call c has its key list: it awaits keyStorer.put() when
\* the response's max-age makes it store the keys, and returns them otherwise
KeysBuilt(c) ==
    IF storesKeys(cfg.rev, parseMaxAge(c.resp.cc))
    THEN [c EXCEPT !.pc = "put"]
    ELSE KeysSettled(c)

\* the loop of refresh() over the certificates of the response, from the
\* certificate at index i on: new crypto.X509Certificate(pem) throws on a
\* string that is no certificate, and x509ToJwk awaits importKey on any other
ConvertFrom(c, i) ==
    IF i > Len(c.resp.body.fields)
    THEN KeysBuilt(c)
    ELSE IF PemMaterial(c.resp.body.fields[i].v.s) = ""
    THEN KeysSettled(c)
    ELSE [c EXCEPT !.pc = "certImport", !.cert = i]

\* the key endpoint of the state
KeyEndpoint == IF "keys" \in DOMAIN origin THEN origin.keys ELSE origin

\* caller p calls keyFetcher.fetchPublicKeys()
FetchPublicKeys(p) ==
    /\ req.op = "fetchPublicKeys"
    /\ MayCall(p)
    /\ pending' = [pending EXCEPT ![p] = KeysCall("fetchPublicKeys")]
    /\ UNCHANGED <<now, cfg, req, call, kv, origin>>

\* caller p calls new PublicKeySignatureVerifier(keyFetcher).verify(token)
Verify(p) ==
    /\ req.op = "verify"
    /\ MayCall(p)
    /\ pending' = [pending EXCEPT ![p] = KeysCall("verify") @@ [jwt |-> req.jwt]]
    /\ UNCHANGED <<now, cfg, req, call, kv, origin>>

\* keyStorer.get() answers caller p: a usable value is returned, anything
\* else starts refresh(), which calls fetcher.fetch()
GetAnswered(p) ==
    /\ pending[p].pc = "get"
    /\ LET publicKeys == KVGet(kv)
           read == [pending[p] EXCEPT !.entry = kv, !.after = kv]
       IN  pending' = [pending EXCEPT ![p] =
                IF publicKeys.t = "null" \/ publicKeys.t \notin {"object", "array"}
                THEN [read EXCEPT !.pc = "fetch"]
                ELSE KeysSettled(read)]
    /\ UNCHANGED <<now, cfg, req, call, kv, origin>>

\* fetcher.fetch() resolves with the response the endpoint serves at this
\* moment; refresh() reads its body, as text when the response is not ok
FetchAnswered(p) ==
    /\ pending[p].pc = "fetch"
    /\ pending' = [pending EXCEPT ![p] =
            [@ EXCEPT !.pc = IF KeyEndpoint.ok THEN "json" ELSE "text",
                      !.resp = KeyEndpoint]]
    /\ UNCHANGED <<now, cfg, req, call, kv, origin>>

\* resp.text() resolves and refresh() throws the error with that text
TextRead(p) ==
    /\ pending[p].pc = "text"
    /\ pending' = [pending EXCEPT ![p] = KeysSettled(@)]
    /\ UNCHANGED <<now, cfg, req, call, kv, origin>>

\* resp.json() settles: a body that is no JSON rejects it and a body of
\* another shape than the revision expects makes refresh() throw; the
\* certificate-map revision goes on to convert the certificates, the key-set
\* revision has its keys
JsonRead(p) ==
    /\ pending[p].pc = "json"
    /\ pending' = [pending EXCEPT ![p] =
            IF @.resp.body.t = "invalid" \/ ~acceptsBody(cfg.rev, @.resp.body)
            THEN KeysSettled(@)
            ELSE IF cfg.rev = "x509"
            THEN ConvertFrom(@, 1)
            ELSE KeysBuilt(@)]
    /\ UNCHANGED <<now, cfg, req, call, kv, origin>>

\* importKey resolves with the certificate's public key and x509ToJwk awaits
\* its export
CertImported(p) ==
    /\ pending[p].pc = "certImport"
    /\ pending' = [pending EXCEPT ![p].pc = "certExport"]
    /\ UNCHANGED <<now, cfg, req, call, kv, origin>>

\* exportKey resolves: the key is pushed under its kid and the loop goes on
\* with the next certificate
CertExported(p) ==
    /\ pending[p].pc = "certExport"
    /\ pending' = [pending EXCEPT ![p] = ConvertFrom(@, @.cert + 1)]
    /\ UNCHANGED <<now, cfg, req, call, kv, origin>>

\* the store applies caller p's put and keyStorer.put() resolves
PutApplied(p) ==
    /\ pending[p].pc = "put"
    /\ kv' = KVAfter(kv, refresh(cfg.rev, pending[p].resp))
    /\ pending' = [pending EXCEPT ![p] = KeysSettled([@ EXCEPT !.after = kv'])]
    /\ UNCHANGED <<now, cfg, req, call, origin>>

\* importKey of verifySignature settles: it rejects a key that is no RS256
\* verification key, which verifySignature rethrows as INVALID_SIGNATURE;
\* with the imported key verifySignature awaits crypto.subtle.verify
KeyImported(p) ==
    /\ pending[p].pc = "importKey"
    /\ LET publicKeys == pending[p].out.keys
           publicJWK == publicKeys[firstKeyWithKid(publicKeys, pending[p].jwt)]
       IN  pending' = [pending EXCEPT ![p].pc =
                          IF publicJWK.importable THEN "verify" ELSE "return"]
    /\ UNCHANGED <<now, cfg, req, call, kv, origin>>

\* crypto.subtle.verify resolves with true or false and verify() returns or
\* throws INVALID_SIGNATURE
SignatureVerified(p) ==
    /\ pending[p].pc = "verify"
    /\ pending' = [pending EXCEPT ![p].pc = "return"]
    /\ UNCHANGED <<now, cfg, req, call, kv, origin>>

\* the endpoint rotates its keys
RotateKeys ==
    /\ origin.body \in GoodBodies
    /\ origin' = [origin EXCEPT !.body =
                    CASE origin.body = GoodCerts -> RotatedCerts
                      [] origin.body = RotatedCerts -> GoodCerts
                      [] origin.body = GoodKeySet -> RotatedKeySet
                      [] OTHER -> GoodKeySet]
    /\ UNCHANGED <<pending, now, cfg, req, call, kv>>

\* the cache entry reaches its TTL or is evicted or deleted
KVExpire ==
    /\ kv # Null
    /\ kv' = Null
    /\ UNCHANGED <<pending, now, cfg, req, call, origin>>

\* another writer leaves a value that is no object under the cache key
KVForeignPut ==
    /\ kv = Null
    /\ kv' \in {Str("foreign"), Num(1)}
    /\ UNCHANGED <<pending, now, cfg, req, call, origin>>

\* ------------------------------------------------------------ Spec
\* FirebaseTokenVerifier.verifyJWT against the clock, the key cache and the
\* key endpoint.
Verifier(kind) ==
    IF kind = "idToken"
    THEN baseCreateIdTokenVerifier(Str(ProjectId))
    ELSE baseCreateSessionCookieVerifier(Str(ProjectId))

ClockSkews ==
    { Skew(-1, FALSE), Skew(0, FALSE), Skew(0, TRUE), Skew(2, FALSE),
      Skew(MaxClockSkewSeconds, FALSE), Skew(MaxClockSkewSeconds + 1, FALSE) }

JwtTokens ==
    {Num(1), Token(2, Header(Str("k1"), Str("RS256")), Null, "A", TRUE),
     [Token(3, Header(Str("k1"), Str("RS256")),
            ValidPayload(ProjectId, -1, MaxNow + 1, -1), "A", TRUE)
        EXCEPT !.signature = NotBase64("Invalid character")],
     Token(3, NotBase64("The string to be decoded is not correctly encoded."),
           ValidPayload(ProjectId, -1, MaxNow + 1, -1), "A", TRUE)}
    \cup {Token(3, Header(Str(ks[1]), Str("RS256")),
                ValidPayload(ProjectId, iat, exp, -1), ks[2], TRUE) :
            ks \in {<<"k1", "A">>, <<"k1", "B">>, <<"k3", "A">>},
            iat \in -1 .. MaxNow + 1, exp \in -1 .. MaxNow + 1}

\* the tokens two callers verify at the same time
ConcurrentTokens ==
    {Token(3, Header(Str(ks[1]), Str("RS256")),
           ValidPayload(ProjectId, -1, exp, -1), ks[2], TRUE) :
        ks \in {<<"k1", "A">>, <<"k1", "B">>, <<"k3", "A">>}, exp \in {0, MaxNow + 1}}

Init ==
    /\ pending = NonePending
    /\ now = 0
    /\ \E kind \in {"idToken", "sessionCookie"}, rev \in {"x509", "jwk"}, callers \in Callers :
          /\ cfg = [kind |-> kind, rev |-> rev, callers |-> callers]
          /\ origin \in VerifierOrigins(rev)
    /\ kv = Null
    /\ call = NoCall
    /\ \E token \in JwtTokens, skew \in ClockSkews :
          req = [op |-> "verifyJWT", jwt |-> token, clockSkewSeconds |-> skew]
    /\ cfg.callers = 2 =>
          /\ req.clockSkewSeconds = Skew(0, FALSE)
          /\ req.jwt \in ConcurrentTokens

\* some earlier verifyJWT call ran in emulator mode
PriorEmulator(c) == c.op = "verifyJWT" /\ (c.isEmulator \/ c.priorEmulator)

\* the record of a verifyJWT call made at clock time clock that read the
\* cache entry entry and was answered resp by the endpoint
VerifyJWTCall(isEmulator, clock, entry, resp, after) ==
    LET o == verifyJWT(Verifier(cfg.kind), req.jwt, isEmulator,
                       req.clockSkewSeconds, clock, cfg.rev, entry, resp)
    IN  [op |-> "verifyJWT", kind |-> cfg.kind, jwt |-> req.jwt,
         isEmulator |-> isEmulator, clockSkewSeconds |-> req.clockSkewSeconds,
         now |-> clock, currentTimestamp |-> o.currentTimestamp,
         stage |-> o.stage, res |-> o.res, verifier |-> o.verifier,
         sig |-> o.sig, out |-> o.out, entry |-> entry, resp |-> resp,
         after |-> after,
         uid |-> IF o.res.ok THEN req.jwt.payload.sub ELSE Undefined,
         priorEmulator |-> PriorEmulator(call)]

\* caller p calls verifier.verifyJWT(jwtToken, isEmulator, clockSkewSeconds):
\* the argument checks, Date.now(), the decode and the payload policy run at
\* once; a call that they reject, and a call in emulator mode, is settled
\* without waiting for anything; any other call awaits verifySignature, whose
\* verifier begins with keyFetcher.fetchPublicKeys()
VerifyJWT(p) ==
    /\ req.op = "verifyJWT"
    /\ MayCall(p)
    /\ \E isEmulator \in BOOLEAN :
          LET settled == VerifyJWTCall(isEmulator, now, kv, origin, kv)
          IN  IF settled.verifier = "publicKey"
              THEN /\ pending' = [pending EXCEPT ![p] =
                            KeysCall("verifyJWT") @@ [jwt |-> req.jwt,
                                                      isEmulator |-> isEmulator,
                                                      now |-> now]]
                   /\ UNCHANGED call
              ELSE /\ call' = settled
                   /\ UNCHANGED pending
    /\ UNCHANGED <<now, cfg, req, kv, origin>>

\* the record of caller p's call once it has returned
Completed(c) ==
    CASE c.op = "fetchPublicKeys" ->
            [op |-> c.op, entry |-> c.entry, resp |-> c.resp, out |-> c.out,
             after |-> c.after]
      [] c.op = "verify" ->
            [op |-> c.op, jwt |-> c.jwt, entry |-> c.entry, resp |-> c.resp,
             out |-> c.out, after |-> c.after,
             res |-> PublicKeySignatureVerifier_verify(c.jwt, c.out)]
      [] c.op = "verifyJWT" ->
            VerifyJWTCall(c.isEmulator, c.now, c.entry, c.resp, c.after)

\* caller p's call returns (resolves or rejects)
Returns(p) ==
    /\ pending[p].pc = "return"
    /\ call' = Completed(pending[p])
    /\ pending' = [pending EXCEPT ![p] = NotCalling]
    /\ UNCHANGED <<now, cfg, req, kv, origin>>

\* the calls of SpecKeys and what happens around them
\* caller p's call gets the answer to the await it stands at
KeysStep(p) ==
    \/ GetAnswered(p) \/ FetchAnswered(p) \/ TextRead(p) \/ JsonRead(p)
    \/ CertImported(p) \/ CertExported(p) \/ PutApplied(p)
    \/ KeyImported(p) \/ SignatureVerified(p) \/ Returns(p)

NextKeys ==
    \/ \E p \in Callers : FetchPublicKeys(p) \/ Verify(p) \/ KeysStep(p)
    \/ RotateKeys \/ KVExpire \/ KVForeignPut
SpecKeys == InitKeys /\ [][NextKeys]_vars

\* a second of wall-clock time passes
Tick ==
    /\ now < MaxNow
    /\ now' = now + 1
    /\ UNCHANGED <<pending, cfg, req, call, kv, origin>>

Next ==
    \/ \E p \in Callers : VerifyJWT(p) \/ KeysStep(p)
    \/ Tick \/ KVExpire
Spec == Init /\ [][Next]_vars

\* ------------------------------------------------------------ SpecPolicy
\* verifyJWT on tokens that decode and differ in the claims verifyPayload
\* examines.
\* subjects of 128 and of 129 characters
Sub16 == "0123456789abcdef"
Sub64 == Sub16 \o Sub16 \o Sub16 \o Sub16
LongestSub == Sub64 \o Sub64
TooLongSub == LongestSub \o "x"

PolicyTokens ==
    {Token(3, Header(Str("k1"), Str("RS256")),
           Payload(Str(aud), Str(sub), Str(iss), Num(-1), Num(MaxNow + 1), auth_time),
           "A", TRUE) :
        aud \in {ProjectId, FIREBASE_AUDIENCE, "projectId0000"},
        sub \in {"userId12345", LongestSub, TooLongSub},
        iss \in {IdTokenIssuer \o ProjectId, SessionCookieIssuer \o ProjectId,
                 IdTokenIssuer \o "projectId0000"},
        auth_time \in {Undefined, Str("1")} \cup {Num(n) : n \in -1 .. MaxNow + 1}}

InitPolicy ==
    /\ pending = NonePending
    /\ now = 0
    /\ \E kind \in {"idToken", "sessionCookie"}, rev \in {"x509", "jwk"} :
          /\ cfg = [kind |-> kind, rev |-> rev, callers |-> 1]
    /\ origin \in {Response(TRUE, GoodBody(cfg.rev), Parts(<< <<"max-age", << 54, 48 >> >> >>)),
                   Response(FALSE, Str("Internal Server Error"), Null)}
    /\ kv = Null
    /\ call = NoCall
    /\ \E token \in PolicyTokens, skew \in {Skew(0, FALSE), Skew(2, FALSE)} :
          req = [op |-> "verifyJWT", jwt |-> token, clockSkewSeconds |-> skew]
    /\ ~origin.ok => req.clockSkewSeconds = Skew(0, FALSE) /\ req.jwt.payload.auth_time = Num(-1)

SpecPolicy == InitPolicy /\ [][Next]_vars

\* ------------------------------------------------------------ client
AppErrorCodes ==
    [INVALID_CREDENTIAL |-> "invalid-credential",
     INTERNAL_ERROR |-> "internal-error",
     NETWORK_ERROR |-> "network-error",
     UNABLE_TO_PARSE_RESPONSE |-> "unable-to-parse-response"]

\* new FirebaseAppError(code, message): the code carries the app/ prefix
FirebaseAppError(code, msg) == Thrown("FirebaseAppError", "app/" \o code, msg)

\* RetryConfig; statusCodes is an array of numbers or undefined, backOffFactor
\* a number counted in halves (Num(1) stands for 0.5) or undefined
RetryConfig(maxRetries, statusCodes, backOffHalves, maxDelayInMillis) ==
    [maxRetries |-> maxRetries, statusCodes |-> statusCodes,
     backOffHalves |-> backOffHalves, maxDelayInMillis |-> maxDelayInMillis]

\* What the global fetch() does on one request: a response with a status and a
\* body text (a JSON value, or [t |-> "invalid"] for text that is no JSON), or
\* a thrown error with a name.
HttpResponse(status, body) == [kind |-> "http", status |-> status, body |-> body]
NetworkFailure(name) == [kind |-> "error", name |-> name]
Response_ok(resp) == resp.status >= 200 /\ resp.status <= 299

\* the server's answer to the n-th request of a call
ServerResponse(server, n) ==
    IF n <= Len(server.script) THEN server.script[n] ELSE server.final

\* An attempt whose JSON parse failure is raised without its cause.
AttemptErrorWithoutCause(resp) ==
    IF resp.kind = "error"
    THEN [cls |-> "Error", name |-> resp.name, status |-> 0, cause |-> FALSE]
    ELSE [cls |-> "HttpError", name |-> "HttpError", status |-> resp.status, cause |-> FALSE]

\* the error the try block of fetchWithRetry raises on a response
\* (HttpError with or without a cause, or the error fetch() threw)
AttemptError(resp) ==
    IF resp.kind = "error"
    THEN [cls |-> "Error", name |-> resp.name, status |-> 0, cause |-> FALSE]
    ELSE IF ~Response_ok(resp)
    THEN [cls |-> "HttpError", name |-> "HttpError", status |-> resp.status, cause |-> FALSE]
    ELSE [cls |-> "HttpError", name |-> "HttpError", status |-> resp.status, cause |-> TRUE]

\* An eligibility check that retries aborted requests like other transport
\* failures.
isRetryEligibleRetryingAborts(retryConfig, retryAttempts, err) ==
    IF retryAttempts >= retryConfig.maxRetries
    THEN FALSE
    ELSE IF err.cls = "HttpError"
    THEN /\ retryConfig.statusCodes # Undefined
         /\ \E i \in 1 .. Len(retryConfig.statusCodes.items) :
               retryConfig.statusCodes.items[i] = err.status
    ELSE TRUE

\* An eligibility check that allows one retry more than maxRetries.
isRetryEligibleOnceMore(retryConfig, retryAttempts, err) ==
    IF retryAttempts > retryConfig.maxRetries
    THEN FALSE
    ELSE IF err.cls = "HttpError"
    THEN /\ retryConfig.statusCodes # Undefined
         /\ \E i \in 1 .. Len(retryConfig.statusCodes.items) :
               retryConfig.statusCodes.items[i] = err.status
    ELSE err.name # "AbortError"

\* BaseClient.isRetryEligible
isRetryEligible(retryConfig, retryAttempts, err) ==
    IF retryAttempts >= retryConfig.maxRetries
    THEN FALSE
    ELSE IF err.cls = "HttpError"
    THEN LET statusCodes == IF retryConfig.statusCodes = Undefined THEN <<>>
                            ELSE retryConfig.statusCodes.items
         IN  \E i \in 1 .. Len(statusCodes) : statusCodes[i] = err.status
    ELSE IF err.name = "AbortError"
    THEN FALSE
    ELSE TRUE

Min(a, b) == IF a <= b THEN a ELSE b

\* A delay that follows (2^n) * backOffFactor from the first retry on.
backOffFromFirstRetry(retryConfig, retryAttempts) ==
    LET backOffHalves == IF retryConfig.backOffHalves = Undefined THEN 0
                         ELSE retryConfig.backOffHalves.n
    IN  Min((2 ^ retryAttempts) * backOffHalves * 500, retryConfig.maxDelayInMillis)

\* BaseClient.backOffDelayMillis
backOffDelayMillis(retryConfig, retryAttempts) ==
    IF retryAttempts = 0
    THEN 0
    ELSE LET backOffHalves == IF retryConfig.backOffHalves = Undefined THEN 0
                              ELSE retryConfig.backOffHalves.n
         IN  Min((2 ^ retryAttempts) * backOffHalves * 500, retryConfig.maxDelayInMillis)

\* the outcome of a client call: result, value, number of HTTP requests made,
\* the waits before the retries, the status the final error reports
ClientResult(res, value, requests, delays, status) ==
    [res |-> res, value |-> value, requests |-> requests, delays |-> delays,
     status |-> status]

\* A client that gives up one attempt early (the variant the retry claims
\* exclude).
RECURSIVE fetchWithOneRetryLess(_, _, _)
fetchWithOneRetryLess(retryConfig, server, retryAttempts) ==
    LET resp == ServerResponse(server, retryAttempts + 1)
    IN  IF resp.kind = "http" /\ Response_ok(resp) /\ resp.body.t # "invalid"
        THEN ClientResult(Ok, resp.body, retryAttempts + 1, <<>>, resp.status)
        ELSE IF /\ retryAttempts + 1 < retryConfig.maxRetries
                /\ resp.kind = "http"
                /\ retryConfig.statusCodes # Undefined
                /\ \E i \in 1 .. Len(retryConfig.statusCodes.items) :
                      retryConfig.statusCodes.items[i] = resp.status
        THEN fetchWithOneRetryLess(retryConfig, server, retryAttempts + 1)
        ELSE ClientResult(Thrown("HttpError", "", "HttpError"), Undefined,
                          retryAttempts + 1, <<>>, 0)

\* A client that retries as the code does but rethrows the raw error once it
\* gives up (the variant the wrapped-error claim excludes).
RECURSIVE fetchRethrowingRawError(_, _, _)
fetchRethrowingRawError(retryConfig, server, retryAttempts) ==
    LET resp == ServerResponse(server, retryAttempts + 1)
        err == AttemptError(resp)
    IN  IF resp.kind = "http" /\ Response_ok(resp) /\ resp.body.t # "invalid"
        THEN ClientResult(Ok, resp.body, retryAttempts + 1, <<>>, resp.status)
        ELSE IF isRetryEligible(retryConfig, retryAttempts, err)
        THEN fetchRethrowingRawError(retryConfig, server, retryAttempts + 1)
        ELSE ClientResult(Thrown(err.cls, "", err.name), Undefined,
                          retryAttempts + 1, <<>>, err.status)

\* BaseClient.fetchWithRetry
RECURSIVE fetchWithRetry(_, _, _)
fetchWithRetry(retryConfig, server, retryAttempts) ==
    LET resp == ServerResponse(server, retryAttempts + 1)
        err == AttemptError(resp)
        canRetry == isRetryEligible(retryConfig, retryAttempts, err)
        delayMillis == backOffDelayMillis(retryConfig, retryAttempts)
    IN  IF resp.kind = "http" /\ Response_ok(resp) /\ resp.body.t # "invalid"
        THEN ClientResult(Ok, resp.body, retryAttempts + 1, <<>>, resp.status)
        ELSE IF canRetry /\ delayMillis <= retryConfig.maxDelayInMillis
        THEN LET later == fetchWithRetry(retryConfig, server, retryAttempts + 1)
             IN  [later EXCEPT !.delays = <<delayMillis>> \o @]
        ELSE IF err.cls = "HttpError"
        THEN IF err.cause
             THEN ClientResult(
                    FirebaseAppError(AppErrorCodes.UNABLE_TO_PARSE_RESPONSE,
                                     "Error while parsing response data"),
                    Undefined, retryAttempts + 1, <<>>, err.status)
             ELSE ClientResult(
                    FirebaseAppError(AppErrorCodes.INTERNAL_ERROR,
                                     "Error while sending request or reading response"),
                    Undefined, retryAttempts + 1, <<>>, err.status)
        ELSE ClientResult(
                FirebaseAppError(AppErrorCodes.NETWORK_ERROR, "Error while making request"),
                Undefined, retryAttempts + 1, <<>>, 0)

\* ------------------------------------------------------------ auth-api-requests
MIN_SESSION_COOKIE_DURATION_SECS == 5 * 60
MAX_SESSION_COOKIE_DURATION_SECS == 14 * 24 * 60 * 60

\* expiresIn / 1000: a number of seconds kept in thousandths; NaN / 1000 is NaN
DivideBy1000(x) ==
    IF isNaN(x) THEN NaN ELSE [t |-> "number", thousandths |-> x.n]
\* the JS comparisons value < k and value > k of a quotient with an integer;
\* both are false for NaN
LessThan(value, k) == value.t = "number" /\ value.thousandths < k * 1000
GreaterThan(value, k) == value.t = "number" /\ value.thousandths > k * 1000

\* property access on a parsed response body: a field of an object, undefined
\* on any other non-null value
Prop(value, name) == IF value.t = "object" THEN Get(value, name) ELSE Undefined

\* request.name of a request object: undefined when the object has no such
\* property
Member(request, name) == IF name \in DOMAIN request THEN request[name] ELSE Undefined

\* ApiSettings.getRequestValidator()(request) of the endpoint settings
\* FIREBASE_AUTH_CREATE_SESSION_COOKIE, FIREBASE_AUTH_GET_ACCOUNT_INFO,
\* FIREBASE_AUTH_REVOKE_REFRESH_TOKENS and of settings without validators
requestValidator(api, request) ==
    CASE api = "createSessionCookie" ->
            IF ~isNonEmptyString(request.idToken)
            THEN FirebaseAuthError(AuthClientErrorCode.INVALID_ID_TOKEN,
                    "The provided ID token is not a valid Firebase ID token.")
            ELSE IF \/ ~isNumber(request.validDuration)
                    \/ LessThan(request.validDuration, MIN_SESSION_COOKIE_DURATION_SECS)
                    \/ GreaterThan(request.validDuration, MAX_SESSION_COOKIE_DURATION_SECS)
            THEN FirebaseAuthError(AuthClientErrorCode.INVALID_SESSION_COOKIE_DURATION,
                    "The session cookie duration must be a valid number in milliseconds between 5 minutes and 2 weeks.")
            ELSE Ok
      [] api = "getAccountInfo" ->
            IF /\ ~Truthy(Member(request, "localId"))
               /\ ~Truthy(Member(request, "email"))
               /\ ~Truthy(Member(request, "phoneNumber"))
               /\ ~Truthy(Member(request, "federatedUserId"))
            THEN FirebaseAuthError(AuthClientErrorCode.INTERNAL_ERROR,
                    "INTERNAL ASSERT FAILED: Server request is missing user identifier")
            ELSE Ok
      [] api = "revokeRefreshTokens" ->
            IF request.localId = Undefined
            THEN FirebaseAuthError(AuthClientErrorCode.INTERNAL_ERROR,
                    "INTERNAL ASSERT FAILED: Server request is missing user identifier")
            ELSE IF request.validSince # Undefined /\ ~isNumber(request.validSince)
            THEN FirebaseAuthError(AuthClientErrorCode.INVALID_TOKENS_VALID_AFTER_TIME,
                    "The tokensValidAfterTime must be a valid UTC number in seconds.")
            ELSE Ok
      [] OTHER -> Ok

\* ApiSettings.getResponseValidator()(response) of the same settings; each
\* reads a property of the response first, which throws on null
responseValidator(api, response) ==
    CASE api \in {"createSessionCookie", "getAccountInfo", "revokeRefreshTokens"}
              /\ response.t = "null" -> TypeError
      [] api = "createSessionCookie" ->
            IF ~isNonEmptyString(Prop(response, "sessionCookie"))
            THEN FirebaseAuthError(AuthClientErrorCode.INTERNAL_ERROR,
                                   "An internal error has occurred.")
            ELSE Ok
      [] api = "getAccountInfo" ->
            IF ~Truthy(Prop(response, "users")) \/ Len(Prop(response, "users").items) = 0
            THEN FirebaseAuthError(AuthClientErrorCode.USER_NOT_FOUND,
                    "There is no user record corresponding to the provided identifier.")
            ELSE Ok
      [] api = "revokeRefreshTokens" ->
            IF ~Truthy(Prop(response, "localId"))
            THEN FirebaseAuthError(AuthClientErrorCode.USER_NOT_FOUND,
                    "There is no user record corresponding to the provided identifier.")
            ELSE Ok
      [] OTHER -> Ok

\* useEmulator(env)
useEmulator(env) == env # Undefined /\ Truthy(Get(env, "FIREBASE_AUTH_EMULATOR_HOST"))

\* BaseClient.getToken: 'owner' on the emulator, else the access token of the
\* credential; accessTokens counts the calls of credential.getAccessToken()
getToken(env) ==
    IF useEmulator(env)
    THEN [token |-> "owner", accessTokens |-> 0]
    ELSE [token |-> "access_token", accessTokens |-> 1]

\* A client that asks the credential for the bearer token before it runs the
\* request validator.
fetchTokenBeforeValidator(api, requestData, env, retryConfig, server) ==
    LET checked == IF Truthy(requestData) THEN requestValidator(api, requestData) ELSE Ok
        token == getToken(env)
    IN  IF ~checked.ok
        THEN ClientResult(checked, Undefined, 0, <<>>, 0)
             @@ [accessTokens |-> token.accessTokens]
        ELSE fetchWithRetry(retryConfig, server, 0)
             @@ [accessTokens |-> token.accessTokens]

\* BaseClient.fetch: the request validator (when there is request data), the
\* bearer token, then the request with retries
BaseClient_fetch(api, requestData, env, retryConfig, server) ==
    LET checked == IF Truthy(requestData) THEN requestValidator(api, requestData) ELSE Ok
    IN  IF ~checked.ok
        THEN ClientResult(checked, Undefined, 0, <<>>, 0) @@ [accessTokens |-> 0]
        ELSE fetchWithRetry(retryConfig, server, 0)
             @@ [accessTokens |-> getToken(env).accessTokens]

\* AuthApiClient.createSessionCookie: the sessionCookie property of the result
AuthApiClient_createSessionCookie(idToken, expiresIn, env, retryConfig, server) ==
    LET request == [t |-> "object", idToken |-> idToken,
                    validDuration |-> DivideBy1000(expiresIn)]
        fetched == BaseClient_fetch("createSessionCookie", request, env, retryConfig, server)
    IN  IF ~fetched.res.ok
        THEN fetched
        ELSE IF fetched.value.t = "null"
        THEN [fetched EXCEPT !.res = TypeError, !.value = Undefined]
        ELSE [fetched EXCEPT !.value = Prop(fetched.value, "sessionCookie")]

\* ------------------------------------------------------------ auth (session cookies)
\* defaultRetryConfig(): the configuration of the client BaseAuth constructs
defaultRetryConfig ==
    RetryConfig(4, [t |-> "array", items |-> <<503>>], Num(1), 60 * 1000)

\* BaseAuth.createSessionCookie on an Auth built with or without a credential
BaseAuth_createSessionCookie(auth, idToken, sessionCookieOptions, env, server) ==
    IF ~isNonNullObject(sessionCookieOptions) \/ ~isNumber(sessionCookieOptions.expiresIn)
    THEN ClientResult(
            FirebaseAuthError(AuthClientErrorCode.INVALID_SESSION_COOKIE_DURATION,
                "The session cookie duration must be a valid number in milliseconds between 5 minutes and 2 weeks."),
            Undefined, 0, <<>>, 0)
    ELSE IF ~auth.credential
    THEN ClientResult(
            FirebaseAppError(AppErrorCodes.INVALID_CREDENTIAL,
                             "Service account must be required in initialization."),
            Undefined, 0, <<>>, 0)
    ELSE AuthApiClient_createSessionCookie(idToken, sessionCookieOptions.expiresIn, env,
                                           auth.retryConfig, server)

\* ------------------------------------------------------------ SpecClient
\* BaseClient.fetch and createSessionCookie against a server that answers the
\* requests it receives one after the other, whichever call sent them. A call
\* yields at await this.getToken(env), at every await fetch(url, init), at
\* every await res.text() and at every await this.waitForRetry(delayMillis);
\* the calls of other callers run in between. The positions of a call:
\*   "getToken"  await this.getToken(env)
\*   "request"   await fetch(url, init)
\*   "text"      await res.text()
\*   "wait"      await this.waitForRetry(delayMillis)
\*   "return"    the promise of the call settles
MaxFailures == MaxRetries + 1
\* The servers of tests/client.test.ts: a script of failures answered in
\* order, then one final response answered to every later request.
Servers ==
    LET ErrorBody == Object(<< Field("error", Str("Server error")) >>)
        DataBody == Object(<< Field("data", Str("test data")) >>)
        Failures ==
            { HttpResponse(503, ErrorBody), HttpResponse(500, ErrorBody),
              HttpResponse(400, ErrorBody), HttpResponse(200, [t |-> "invalid"]),
              NetworkFailure("TypeError"), NetworkFailure("AbortError") }
        Scripts ==
            {[i \in 1 .. k |-> f] : k \in 0 .. MaxFailures, f \in Failures}
            \cup { << HttpResponse(503, ErrorBody), NetworkFailure("TypeError"),
                      HttpResponse(503, ErrorBody) >>,
                   << HttpResponse(503, ErrorBody), HttpResponse(500, ErrorBody) >> }
        FinalResponses ==
            { HttpResponse(200, DataBody), HttpResponse(200, [t |-> "invalid"]),
              HttpResponse(200, Object(<< Field("sessionCookie", Str("cookie")) >>)),
              HttpResponse(200, Object(<< Field("sessionCookie", Str("")) >>)),
              HttpResponse(200, Object(<< >>)), HttpResponse(200, Null),
              HttpResponse(503, ErrorBody) }
    IN  {[script |-> sc, final |-> f, served |-> 0] : sc \in Scripts, f \in FinalResponses}

RetryConfigs ==
    {RetryConfig(m, codes, halves, maxDelay) :
        m \in 0 .. MaxRetries,
        codes \in {Undefined, Array(<<503>>), Array(<<500, 503>>), Array(<<200, 503>>)},
        halves \in {Undefined, Num(0), Num(1), Num(2)}, maxDelay \in {-1, 0, 1000, 3000}}

SessionCookieOptions ==
    {Undefined, Null, Str("300000")}
    \cup {[t |-> "object", expiresIn |-> v] :
            v \in {Undefined, Str("300000"), NaN, Num(0), Num(-1), Num(299999),
                   Num(300000), Num(300001), Num(1209600000), Num(1209600001)}}

EmulatorEnvs ==
    {Undefined, Object(<< Field("FIREBASE_AUTH_EMULATOR_HOST", Str("127.0.0.1:9099")) >>)}

\* the requests of the fetch calls: the {} of tests/client.test.ts on settings
\* without validators, no request data, and accounts:update requests for the
\* revokeRefreshTokens settings with and without the user identifier
FetchRequests ==
    {[op |-> "fetch", api |-> "test", requestData |-> Object(<< >>), env |-> Undefined]}
    \cup {[op |-> "fetch", api |-> "revokeRefreshTokens", requestData |-> data, env |-> env] :
            data \in {Undefined,
                      [t |-> "object", localId |-> Str("uid"), validSince |-> Num(1)],
                      [t |-> "object", localId |-> Undefined, validSince |-> Num(1)],
                      [t |-> "object", localId |-> Str("uid"), validSince |-> Str("1")]},
            env \in EmulatorEnvs}

InitClient ==
    /\ pending = NonePending
    /\ now = 0
    /\ kv = Null
    /\ call = NoCall
    /\ origin \in Servers
    /\ \/ /\ cfg \in {[credential |-> TRUE, retryConfig |-> rc, callers |-> 1] :
                      rc \in RetryConfigs}
          /\ req \in FetchRequests
          /\ req.api = "test" \/ (cfg.retryConfig = RetryConfig(MaxRetries, Array(<<503>>), Num(1), 1000))
       \/ /\ cfg = [credential |-> TRUE, callers |-> 2,
                    retryConfig |-> RetryConfig(MaxRetries, Array(<<503>>), Num(1), 1000)]
          /\ req = [op |-> "fetch", api |-> "test", requestData |-> Object(<< >>),
                    env |-> Undefined]
          /\ \A i \in DOMAIN origin.script :
                origin.script[i].kind = "http" /\ origin.script[i].status = 503
          /\ origin.final.body \in {Object(<< Field("data", Str("test data")) >>),
                                     Object(<< Field("error", Str("Server error")) >>)}
       \/ /\ cfg \in {[credential |-> c, retryConfig |-> defaultRetryConfig, callers |-> n] :
                      c \in BOOLEAN, n \in Callers}
          /\ Len(origin.script) <= 1
          /\ cfg.callers = 2 =>
                /\ cfg.credential
                /\ origin.final.body \in
                      {Object(<< Field("sessionCookie", Str("cookie")) >>), Null}
          /\ \E idToken \in {Str("idToken"), Str(""), Undefined},
                options \in SessionCookieOptions :
                req = [op |-> "createSessionCookie", idToken |-> idToken,
                       sessionCookieOptions |-> options]

\* a call in flight: where it waits and the answers its requests have had
ClientCall(op) == [pc |-> "getToken", op |-> op, answers |-> << >>]

\* the server as the call has seen it: its requests answered by `answers`, a
\* further request not answered before the call's signal aborts it
AnswersSoFar(answers) == [script |-> answers, final |-> NetworkFailure("AbortError")]

\* what the call has done once its requests have had these answers
OutSoFar(c) ==
    IF c.op = "fetch"
    THEN BaseClient_fetch(req.api, req.requestData, req.env, cfg.retryConfig,
                          AnswersSoFar(c.answers))
    ELSE BaseAuth_createSessionCookie(cfg, req.idToken, req.sessionCookieOptions,
                                      Undefined, AnswersSoFar(c.answers))

\* the call as the caller sees it once its promise has settled
ClientCompleted(c) ==
    IF c.op = "fetch"
    THEN [op |-> "fetch", api |-> req.api, requestData |-> req.requestData,
          env |-> req.env, retryConfig |-> cfg.retryConfig, answers |-> c.answers,
          out |-> OutSoFar(c)]
    ELSE [op |-> "createSessionCookie", credential |-> cfg.credential,
          idToken |-> req.idToken, sessionCookieOptions |-> req.sessionCookieOptions,
          answers |-> c.answers, out |-> OutSoFar(c)]

\* client.fetch(apiSettings, {}) up to its first await: the request validator
\* rejects the call, or the call yields at await this.getToken(env)
ClientFetch(p) ==
    /\ req.op = "fetch"
    /\ MayCall(p)
    /\ IF OutSoFar(ClientCall("fetch")).requests = 0
       THEN call' = ClientCompleted(ClientCall("fetch")) /\ UNCHANGED pending
       ELSE pending' = [pending EXCEPT ![p] = ClientCall("fetch")] /\ UNCHANGED call
    /\ UNCHANGED <<now, cfg, req, kv, origin>>

\* auth.createSessionCookie(idToken, sessionCookieOptions) up to its first
\* await: the argument checks reject the call, or the call yields at await
\* this.getToken(env)
CreateSessionCookie(p) ==
    /\ req.op = "createSessionCookie"
    /\ MayCall(p)
    /\ IF OutSoFar(ClientCall("createSessionCookie")).requests = 0
       THEN /\ call' = ClientCompleted(ClientCall("createSessionCookie"))
            /\ UNCHANGED pending
       ELSE /\ pending' = [pending EXCEPT ![p] = ClientCall("createSessionCookie")]
            /\ UNCHANGED call
    /\ UNCHANGED <<now, cfg, req, kv, origin>>

\* getToken resolves and fetchWithRetry sends the first request
TokenGranted(p) ==
    /\ pending[p].pc = "getToken"
    /\ pending' = [pending EXCEPT ![p].pc = "request"]
    /\ UNCHANGED <<now, cfg, req, call, kv, origin>>

\* the call once the try block of fetchWithRetry has ended on its latest
\* answer: the catch block yields at waitForRetry, or the call ends
AttemptSettled(c) ==
    [c EXCEPT !.pc = IF OutSoFar(c).requests > Len(c.answers) THEN "wait" ELSE "return"]

\* await fetch(url, init) settles with the server's next answer: a response,
\* whose body the call goes on to read, or an error thrown into the catch block
RequestAnswered(p) ==
    /\ pending[p].pc = "request"
    /\ LET resp == ServerResponse(origin, origin.served + 1)
           answered == [pending[p] EXCEPT !.answers = Append(@, resp)]
       IN  pending' = [pending EXCEPT ![p] =
                IF resp.kind = "http"
                THEN [answered EXCEPT !.pc = "text"]
                ELSE AttemptSettled(answered)]
    /\ origin' = [origin EXCEPT !.served = IF @ < Len(origin.script) THEN @ + 1 ELSE @]
    /\ UNCHANGED <<now, cfg, req, call, kv>>

\* await res.text() resolves: the status check and JSON.parse end the call or
\* throw into the catch block
BodyRead(p) ==
    /\ pending[p].pc = "text"
    /\ pending' = [pending EXCEPT ![p] = AttemptSettled(@)]
    /\ UNCHANGED <<now, cfg, req, call, kv, origin>>

\* waitForRetry resolves and fetchWithRetry sends the next request
RetryTimerFires(p) ==
    /\ pending[p].pc = "wait"
    /\ pending' = [pending EXCEPT ![p].pc = "request"]
    /\ UNCHANGED <<now, cfg, req, call, kv, origin>>

\* the promise of the call settles
ClientReturns(p) ==
    /\ pending[p].pc = "return"
    /\ call' = ClientCompleted(pending[p])
    /\ pending' = [pending EXCEPT ![p] = NotCalling]
    /\ UNCHANGED <<now, cfg, req, kv, origin>>

ClientStep(p) ==
    \/ TokenGranted(p) \/ RequestAnswered(p) \/ BodyRead(p)
    \/ RetryTimerFires(p) \/ ClientReturns(p)

NextClient ==
    \E p \in Callers : ClientFetch(p) \/ CreateSessionCookie(p) \/ ClientStep(p)
SpecClient == InitClient /\ [][NextClient]_vars
\* the calls of the clients that retry no status or 503 only, under the
\* fairness the runtime gives a call. Every attempt carries the signal of
\* AbortSignal.timeout, so await fetch and await res.text() settle; the timer
\* of waitForRetry fires; on the emulator getToken resolves with 'owner' at
\* once. Outside the emulator getToken awaits credential.getAccessToken(),
\* whose fetch has no signal: nothing makes that await settle.
InitClientFair ==
    /\ InitClient
    /\ cfg.retryConfig.statusCodes \in {Undefined, Array(<<503>>)}
    /\ cfg.retryConfig.backOffHalves \in {Undefined, Num(1)}
\* the env argument of the call in flight
CallEnv == Member(req, "env")
ClientProgress(p) ==
    \/ useEmulator(CallEnv) /\ TokenGranted(p)
    \/ RequestAnswered(p) \/ BodyRead(p) \/ RetryTimerFires(p) \/ ClientReturns(p)
SpecClientFair ==
    InitClientFair /\ [][NextClient]_vars /\ \A p \in Callers : WF_vars(ClientProgress(p))

\* ------------------------------------------------------------ SpecTimeout
\* One BaseClient.fetch call in time: the wall clock `now` counts seconds here.
\* fetch() awaits the access token, then creates one AbortSignal.timeout(25000)
\* and hands the same init, with that signal, to every attempt of
\* fetchWithRetry.
TimeoutSeconds == 25
MaxClock == 32

\* the error fetch() rejects with once the signal has aborted: the signal's
\* reason, a DOMException named TimeoutError
TimeoutError == [cls |-> "Error", name |-> "TimeoutError", status |-> 0, cause |-> FALSE]

\* the catch block of fetchWithRetry at time clock: wait for the retry, or
\* throw the wrapped error
catchAttemptError(c, retryConfig, err, clock) ==
    LET canRetry == isRetryEligible(retryConfig, c.retryAttempts, err)
        delayMillis == backOffDelayMillis(retryConfig, c.retryAttempts)
    IN  IF canRetry /\ delayMillis <= retryConfig.maxDelayInMillis
        THEN [c EXCEPT !.pc = "wait", !.waitUntil = clock + (delayMillis \div 1000)]
        ELSE [c EXCEPT !.pc = "done",
                       !.res = IF err.cls = "HttpError"
                               THEN IF err.cause
                                    THEN FirebaseAppError(
                                            AppErrorCodes.UNABLE_TO_PARSE_RESPONSE,
                                            "Error while parsing response data")
                                    ELSE FirebaseAppError(AppErrorCodes.INTERNAL_ERROR,
                                            "Error while sending request or reading response")
                               ELSE FirebaseAppError(AppErrorCodes.NETWORK_ERROR,
                                        "Error while making request")]

InitTimeout ==
    /\ pending = NonePending
    /\ now = 0
    /\ kv = Null
    /\ call = NoCall
    /\ origin = Null
    /\ req = [op |-> "fetch", api |-> "test", requestData |-> Object(<< >>),
              env |-> Undefined]
    /\ cfg \in {[credential |-> TRUE, retryConfig |-> rc] :
                rc \in {defaultRetryConfig, RetryConfig(1, Array(<<503>>), Undefined, 1000)}}

\* client.fetch(apiSettings, {}) up to await this.getToken(env): no signal
\* exists yet
FetchStarts ==
    /\ call.op = "none"
    /\ call' = [op |-> "fetchInFlight", pc |-> "getToken",
                signalAt |-> Null, retryAttempts |-> 0, resp |-> Null,
                attemptStart |-> Null, waitUntil |-> 0, timedOut |-> Null, res |-> Null]
    /\ UNCHANGED <<pending, now, cfg, req, kv, origin>>

\* the token arrives: the signal is created once and aborts TimeoutSeconds
\* later, and the first attempt starts
SignalCreated ==
    /\ call.op = "fetchInFlight" /\ call.pc = "getToken"
    /\ call' = [call EXCEPT !.pc = "attempt", !.signalAt = now + TimeoutSeconds,
                            !.attemptStart = now]
    /\ UNCHANGED <<pending, now, cfg, req, kv, origin>>

\* await fetch(url, init) resolves with the server's response before the
\* signal aborts; the call goes on to read the body
AttemptAnswered ==
    /\ call.op = "fetchInFlight" /\ call.pc = "attempt"
    /\ now < call.signalAt
    /\ \E resp \in {HttpResponse(503, Object(<< Field("error", Str("Server error")) >>)),
                     HttpResponse(200, Object(<< Field("data", Str("test data")) >>)),
                     HttpResponse(200, [t |-> "invalid"])} :
          call' = [call EXCEPT !.pc = "text", !.resp = resp]
    /\ UNCHANGED <<pending, now, cfg, req, kv, origin>>

\* await res.text() resolves before the signal aborts: the call returns the
\* parsed body, or the status check or JSON.parse throws into the catch block
AttemptBodyRead ==
    /\ call.op = "fetchInFlight" /\ call.pc = "text"
    /\ now < call.signalAt
    /\ call' = IF Response_ok(call.resp) /\ call.resp.body.t # "invalid"
               THEN [call EXCEPT !.pc = "done", !.res = Ok]
               ELSE catchAttemptError(call, cfg.retryConfig, AttemptError(call.resp), now)
    /\ UNCHANGED <<pending, now, cfg, req, kv, origin>>

\* the signal has aborted: the attempt in flight (its request, or the read of
\* its response body), or an attempt started with the aborted signal, rejects
\* with the signal's reason
AttemptTimedOut ==
    /\ call.op = "fetchInFlight" /\ call.pc \in {"attempt", "text"}
    /\ now >= call.signalAt
    /\ call' = catchAttemptError(
                  [call EXCEPT !.timedOut = [attempt |-> call.retryAttempts + 1,
                                             ran |-> now - call.attemptStart]],
                  cfg.retryConfig, TimeoutError, now)
    /\ UNCHANGED <<pending, now, cfg, req, kv, origin>>

\* waitForRetry resolves and fetchWithRetry runs again with the same init
RetryStarts ==
    /\ call.op = "fetchInFlight" /\ call.pc = "wait"
    /\ now >= call.waitUntil
    /\ call' = [call EXCEPT !.pc = "attempt", !.retryAttempts = @ + 1,
                            !.attemptStart = now]
    /\ UNCHANGED <<pending, now, cfg, req, kv, origin>>

\* a second passes; timers that are due fire first
TickSecond ==
    /\ now < MaxClock
    /\ IF call.op = "none" THEN TRUE
       ELSE \/ call.pc \in {"getToken", "done"}
            \/ call.pc \in {"attempt", "text"} /\ now < call.signalAt
            \/ call.pc = "wait" /\ now < call.waitUntil
    /\ now' = now + 1
    /\ UNCHANGED <<pending, cfg, req, call, kv, origin>>

NextTimeout ==
    \/ FetchStarts \/ SignalCreated \/ AttemptAnswered \/ AttemptBodyRead \/ AttemptTimedOut
    \/ RetryStarts \/ TickSecond
SpecTimeout == InitTimeout /\ [][NextTimeout]_vars

\* ------------------------------------------------------------ auth (revocation)
\* isUid: a non-empty string of at most 128 characters
isUid(uid) == isString(uid) /\ Len(uid.s) > 0 /\ Len(uid.s) <= 128

\* A user record that never reports the user as disabled.
UserRecordNeverDisabled(response) ==
    [uid |-> Get(response, "localId"),
     disabled |-> FALSE,
     tokensValidAfterTime |->
        IF Get(response, "validSince") = Undefined
        THEN Null
        ELSE [t |-> "string", s |-> "UTC", seconds |-> Get(response, "validSince").n]]

\* A user record that drops the validSince of the response.
UserRecordWithoutValidSince(response) ==
    [uid |-> Get(response, "localId"),
     disabled |-> Truthy(Get(response, "disabled")),
     tokensValidAfterTime |-> Null]

\* new UserRecord(response): uid, disabled (false when absent) and
\* tokensValidAfterTime, the UTC date string of validSince seconds (null when
\* the response has no validSince)
UserRecord(response) ==
    [uid |-> Get(response, "localId"),
     disabled |-> Truthy(Get(response, "disabled")),
     tokensValidAfterTime |->
        IF Get(response, "validSince") = Undefined
        THEN Null
        ELSE [t |-> "string", s |-> "UTC", seconds |-> Get(response, "validSince").n]]

\* new Date(utcString).getTime(): milliseconds of a UTC date string
Date_getTime(utcString) == utcString.seconds * 1000

\* The identity backend answering one admin request from its user records:
\* accounts:lookup returns the records with the requested localId (no users
\* property when there is none), accounts:update answers with the localId of
\* an existing user and with 400 otherwise.
IdentityServer(users, api, request) ==
    LET asked == IF api = "getAccountInfo" THEN request.localId.items
                 ELSE << request.localId >>
        found == SelectSeq(users, LAMBDA u :
                    \E i \in 1 .. Len(asked) : Get(u, "localId") = asked[i])
        body == CASE api = "getAccountInfo" ->
                        IF found = <<>> THEN Object(<< Field("kind", Str("lookup")) >>)
                        ELSE Object(<< Field("kind", Str("lookup")),
                                       Field("users", Array(found)) >>)
                  [] OTHER -> Object(<< Field("localId", request.localId) >>)
    IN  [script |-> <<>>,
         final |-> IF api # "getAccountInfo" /\ found = <<>>
                   THEN HttpResponse(400, Object(<< Field("error", Str("USER_NOT_FOUND")) >>))
                   ELSE HttpResponse(200, body)]

\* AuthApiClient.getAccountInfoByUid: the UserRecord of res.users[0]
AuthApiClient_getAccountInfoByUid(uid, env, retryConfig, users) ==
    LET request == [t |-> "object", localId |-> Array(<< uid >>)]
        \* new UserRecord(res.users[0]) on the result of this.fetch
        userOf(fetched) ==
            IF ~fetched.res.ok
            THEN fetched
            ELSE IF Prop(fetched.value, "users") = Undefined
            THEN [fetched EXCEPT !.res = TypeError, !.value = Undefined]
            ELSE [fetched EXCEPT
                    !.value = UserRecord(Prop(fetched.value, "users").items[1])]
    IN  IF ~isUid(uid)
        THEN ClientResult(FirebaseAuthError(AuthClientErrorCode.INVALID_UID,
                "The uid must be a non-empty string with at most 128 characters."),
                Undefined, 0, <<>>, 0)
        ELSE userOf(BaseClient_fetch("getAccountInfo", request, env, retryConfig,
                                     IdentityServer(users, "getAccountInfo", request)))

\* AuthApiClient.revokeRefreshTokens at wall-clock time clock (milliseconds):
\* the request carries validSince = Math.floor(clock / 1000)
AuthApiClient_revokeRefreshTokens(uid, clock, env, retryConfig, users) ==
    LET request == [t |-> "object", localId |-> uid, validSince |-> Num(clock \div 1000)]
        \* res.localId on the result of this.fetch
        localIdOf(fetched) ==
            IF ~fetched.res.ok
            THEN fetched
            ELSE IF fetched.value.t = "null"
            THEN [fetched EXCEPT !.res = TypeError, !.value = Undefined]
            ELSE [fetched EXCEPT !.value = Prop(fetched.value, "localId")]
    IN  IF ~isUid(uid)
        THEN [request |-> Null,
              out |-> ClientResult(FirebaseAuthError(AuthClientErrorCode.INVALID_UID,
                        "The uid must be a non-empty string with at most 128 characters."),
                        Undefined, 0, <<>>, 0)]
        ELSE [request |-> request,
              out |-> localIdOf(BaseClient_fetch("revokeRefreshTokens", request, env,
                            retryConfig,
                            IdentityServer(users, "revokeRefreshTokens", request)))]

\* BaseAuth.getUser: the authApiClient getter, then getAccountInfoByUid
BaseAuth_getUser(auth, uid, env, users) ==
    IF ~auth.credential
    THEN ClientResult(
            FirebaseAppError(AppErrorCodes.INVALID_CREDENTIAL,
                             "Service account must be required in initialization."),
            Undefined, 0, <<>>, 0)
    ELSE AuthApiClient_getAccountInfoByUid(uid, env, auth.retryConfig, users)

\* the result of a verification: outcome, returned claims, the number of user
\* lookups sent and the token verifier's own outcome
AuthResult(res, value, lookups, jwt) ==
    [res |-> res, value |-> value, lookups |-> lookups, jwt |-> jwt]

\* BaseAuth.verifyDecodedJWTNotRevokedOrDisabled
verifyDecodedJWTNotRevokedOrDisabled(auth, decodedIdToken, revocationErrorInfo, env, users, jwt) ==
    LET \* the checks on what await this.getUser(decodedIdToken.sub, env) gave
        checked(got) ==
            IF ~got.res.ok
            THEN AuthResult(got.res, Undefined, got.requests, jwt)
            ELSE IF got.value.disabled
            THEN AuthResult(FirebaseAuthError(AuthClientErrorCode.USER_DISABLED,
                                              "The user record is disabled."),
                            Undefined, got.requests, jwt)
            ELSE IF /\ Truthy(got.value.tokensValidAfterTime)
                    /\ decodedIdToken.auth_time.n * 1000
                         < Date_getTime(got.value.tokensValidAfterTime)
            THEN AuthResult(FirebaseAuthError(revocationErrorInfo.code,
                                              revocationErrorInfo.message),
                            Undefined, got.requests, jwt)
            ELSE AuthResult(Ok, decodedIdToken, got.requests, jwt)
    IN  checked(BaseAuth_getUser(auth, decodedIdToken.sub, env, users))

\* BaseAuth.verifyIdToken at wall-clock time clock (milliseconds);
\* clockSkewSeconds is handed on to verifyJWT, whose parameter defaults to 0
\* when the argument is undefined
BaseAuth_verifyIdToken(auth, idToken, checkRevoked, env, clockSkewSeconds, clock, entry, backend) ==
    LET \* what follows await this.idTokenVerifier.verifyJWT(...)
        verified(jwt) ==
            IF ~jwt.res.ok
            THEN AuthResult(jwt.res, Undefined, 0, jwt)
            ELSE IF checkRevoked
            THEN verifyDecodedJWTNotRevokedOrDisabled(auth, idToken.payload,
                    [code |-> AuthClientErrorCode.ID_TOKEN_REVOKED,
                     message |-> "The Firebase ID token has been revoked."],
                    env, backend.users, jwt)
            ELSE AuthResult(Ok, idToken.payload, 0, jwt)
    IN  verified(verifyJWT(baseCreateIdTokenVerifier(Str(auth.projectId)), idToken,
                           useEmulator(env),
                           IF clockSkewSeconds = Undefined THEN Skew(0, FALSE)
                           ELSE clockSkewSeconds,
                           clock \div 1000, auth.rev, entry, backend.keys))

\* BaseAuth.verifySessionCookie at wall-clock time clock (milliseconds)
BaseAuth_verifySessionCookie(auth, sessionCookie, checkRevoked, env, clock, entry, backend) ==
    LET \* what follows await this.sessionCookieVerifier.verifyJWT(...)
        verified(jwt) ==
            IF ~jwt.res.ok
            THEN AuthResult(jwt.res, Undefined, 0, jwt)
            ELSE IF checkRevoked
            THEN verifyDecodedJWTNotRevokedOrDisabled(auth, sessionCookie.payload,
                    [code |-> AuthClientErrorCode.SESSION_COOKIE_REVOKED,
                     message |-> "The Firebase session cookie has been revoked."],
                    env, backend.users, jwt)
            ELSE AuthResult(Ok, sessionCookie.payload, 0, jwt)
    IN  verified(verifyJWT(baseCreateSessionCookieVerifier(Str(auth.projectId)),
                           sessionCookie,
                           useEmulator(env), Skew(0, FALSE), clock \div 1000,
                           auth.rev, entry, backend.keys))

\* BaseAuth.revokeRefreshTokens: the authApiClient getter, then the request;
\* the client's result is awaited and dropped, the promise resolves with
\* undefined
BaseAuth_revokeRefreshTokens(auth, uid, env, clock, users) ==
    IF ~auth.credential
    THEN [request |-> Null,
          out |-> ClientResult(
                    FirebaseAppError(AppErrorCodes.INVALID_CREDENTIAL,
                                     "Service account must be required in initialization."),
                    Undefined, 0, <<>>, 0)]
    ELSE LET sent == AuthApiClient_revokeRefreshTokens(uid, clock, env,
                                                       auth.retryConfig, users)
         IN  [sent EXCEPT !.out.value = Undefined]

\* ------------------------------------------------------------ SpecAuth
\* verifyIdToken, verifySessionCookie and revokeRefreshTokens of one BaseAuth
\* against an identity backend holding one user; the wall clock `now` is in
\* milliseconds here and advances by half seconds. The first caller makes any
\* of the calls; while its call is under way the backend may disable the
\* user, the clock may advance and a second caller may revoke the user's
\* tokens. `call` is the call that settled last, and no call while a call made
\* after it is under way. A verification stands at the positions of
\* fetchPublicKeys and verifySignature, then, for the user lookup, at
\* "getToken" (await this.getToken(env)), "request" (await fetch(url, init))
\* and "text" (await res.text()), as a revocation does.
Uid == "userId12345"
\* a user record as accounts:lookup returns it
UserJson(localId, disabled, validSince) ==
    Object(<< Field("localId", localId) >>
           \o (IF disabled THEN << Field("disabled", [t |-> "true"]) >> ELSE << >>)
           \o (IF validSince = Undefined THEN << >>
               ELSE << Field("validSince", validSince) >>))
\* the tokens handed to a verification that expects the issuer own: tokens
\* of the user from that issuer, one of a user the backend does not know, one
\* with a signature of another key, and one of the user from the issuer other
AuthTokens(own, other) ==
    LET AuthToken(sub, iss, auth_time, signer) ==
            Token(3, Header(Str("k1"), Str("RS256")),
                  Payload(Str(ProjectId), Str(sub), Str(iss \o ProjectId),
                          Num(-1), Num(MaxNow + 2), Num(auth_time)),
                  signer, TRUE)
    IN  {AuthToken(Uid, own, auth_time, "A") : auth_time \in 0 .. MaxNow - 1}
        \cup {AuthToken("unknownUser", own, -1, "A"), AuthToken(Uid, own, -1, "B"),
               AuthToken(Uid, other, 0, "A")}

InitAuth ==
    /\ pending = NonePending
    /\ now = 0
    /\ \E credential \in BOOLEAN :
          /\ cfg = [projectId |-> ProjectId, rev |-> "jwk", credential |-> credential,
                    retryConfig |-> defaultRetryConfig, callers |-> 2]
          /\ origin = [keys |-> Response(TRUE, RotatedKeySet,
                                         Parts(<< <<"max-age", << 54, 48 >> >> >>)),
                       users |-> << UserJson(Str(Uid), FALSE, Undefined) >>]
    /\ kv = Null
    /\ call = NoCall
    /\ req = [op |-> "none"]

\* a verification in flight: the token, the flags, the clock the call read
\* and the user records its lookup was answered from
AuthVerifyCall(op, jwt, checkRevoked, env, clockSkewSeconds) ==
    KeysCall(op) @@ [jwt |-> jwt, checkRevoked |-> checkRevoked, env |-> env,
                     clockSkewSeconds |-> clockSkewSeconds,
                     now |-> now, users |-> << >>]

\* what the verification has done once the cache, the key endpoint and the
\* identity backend have given it these answers
AuthSoFar(c) ==
    LET backend == [keys |-> c.resp, users |-> c.users]
    IN  IF c.op = "verifyIdToken"
        THEN BaseAuth_verifyIdToken(cfg, c.jwt, c.checkRevoked, c.env,
                                    c.clockSkewSeconds, c.now, c.entry, backend)
        ELSE BaseAuth_verifySessionCookie(cfg, c.jwt, c.checkRevoked, c.env, c.now,
                                          c.entry, backend)

\* the verification as the caller sees it once its promise has settled
AuthCompleted(c) ==
    [op |-> c.op, jwt |-> c.jwt, checkRevoked |-> c.checkRevoked, env |-> c.env,
     clockSkewSeconds |-> c.clockSkewSeconds, users |-> c.users, out |-> AuthSoFar(c)]

\* the verification settled goes on to the user lookup before it settles:
\* the token has verified, checkRevoked is set and the authApiClient getter
\* finds a credential
LooksUserUp(settled) ==
    settled.out.jwt.res.ok /\ settled.checkRevoked /\ cfg.credential

\* a verification starts: the token verifier's synchronous part settles the
\* call, or goes on to the user lookup, or awaits the public keys
AuthVerifyStarts(p, c) ==
    /\ MayCall(p)
    /\ p = 1
    \* inputs: the emulator is given the token signed with another key and
    \* the tokens with auth_time 0
    /\ c.env # Undefined => c.jwt.signer = "B" \/ c.jwt.payload.auth_time = Num(0)
    /\ \E settled \in {AuthCompleted([c EXCEPT !.users = origin.users])} :
          IF settled.out.jwt.verifier = "publicKey"
          THEN pending' = [pending EXCEPT ![p] = c] /\ call' = NoCall
          ELSE IF LooksUserUp(settled)
          THEN /\ pending' = [pending EXCEPT ![p] = [c EXCEPT !.pc = "getToken"]]
               /\ call' = NoCall
          ELSE call' = settled /\ UNCHANGED pending
    /\ UNCHANGED <<now, cfg, req, kv, origin>>

\* auth.verifyIdToken(idToken, checkRevoked, env, clockSkewSeconds) up to its
\* first await, without clockSkewSeconds or with one above the maximum
VerifyIdToken(p) ==
    \E idToken \in AuthTokens(IdTokenIssuer, SessionCookieIssuer),
       checkRevoked \in BOOLEAN, env \in EmulatorEnvs,
       clockSkewSeconds \in {Undefined, Skew(MaxClockSkewSeconds + 1, FALSE)} :
        /\ clockSkewSeconds # Undefined => checkRevoked /\ env = Undefined
        /\ AuthVerifyStarts(p, AuthVerifyCall("verifyIdToken", idToken, checkRevoked, env,
                                              clockSkewSeconds))

\* auth.verifySessionCookie(sessionCookie, checkRevoked, env) up to its first
\* await
VerifySessionCookie(p) ==
    \E sessionCookie \in AuthTokens(SessionCookieIssuer, IdTokenIssuer),
       checkRevoked \in BOOLEAN, env \in EmulatorEnvs :
        AuthVerifyStarts(p, AuthVerifyCall("verifySessionCookie", sessionCookie,
                                           checkRevoked, env, Undefined))

\* verifySignature has resolved or rejected: the call settles, or goes on to
\* the user lookup and yields at await this.getToken(env)
SignatureSettled(p) ==
    /\ pending[p].pc = "return"
    /\ pending[p].op \in {"verifyIdToken", "verifySessionCookie"}
    /\ \E settled \in {AuthCompleted([pending[p] EXCEPT !.users = origin.users])} :
          IF LooksUserUp(settled)
          THEN pending' = [pending EXCEPT ![p].pc = "getToken"] /\ UNCHANGED call
          ELSE call' = settled /\ pending' = [pending EXCEPT ![p] = NotCalling]
    /\ UNCHANGED <<now, cfg, req, kv, origin>>

\* await fetch(url, init) of the accounts:lookup request resolves with the
\* response the identity backend built from its user records
LookupAnswered(p) ==
    /\ pending[p].pc = "request"
    /\ pending[p].op \in {"verifyIdToken", "verifySessionCookie"}
    /\ pending' = [pending EXCEPT ![p] =
                     [@ EXCEPT !.pc = "text", !.users = origin.users]]
    /\ UNCHANGED <<now, cfg, req, call, kv, origin>>

\* await res.text() resolves: the body is parsed and validated, the checks of
\* verifyDecodedJWTNotRevokedOrDisabled run on the user record and the promise
\* of the verification settles
LookupReturns(p) ==
    /\ pending[p].pc = "text"
    /\ pending[p].op \in {"verifyIdToken", "verifySessionCookie"}
    /\ call' = AuthCompleted(pending[p])
    /\ pending' = [pending EXCEPT ![p] = NotCalling]
    /\ UNCHANGED <<now, cfg, req, kv, origin>>

\* a revocation in flight: the uid and the clock the request was built at
RevokeCall(uid) ==
    [pc |-> "getToken", op |-> "revokeRefreshTokens", uid |-> uid, now |-> now]

\* the user records once the backend has handled the revocation o
UsersAfter(users, o) ==
    IF o.out.res.ok
    THEN [i \in DOMAIN users |->
            IF Get(users[i], "localId") = o.request.localId
            THEN UserJson(o.request.localId, Truthy(Get(users[i], "disabled")),
                          o.request.validSince)
            ELSE users[i]]
    ELSE users

\* the revocation as the caller sees it once its promise has settled: the
\* backend answered from the user records users and left the records left
RevokeCompleted(c, users) ==
    LET o == BaseAuth_revokeRefreshTokens(cfg, c.uid, Undefined, c.now, users)
    IN  [op |-> "revokeRefreshTokens", uid |-> c.uid, now |-> c.now,
         request |-> o.request, out |-> o.out, left |-> UsersAfter(users, o)]

\* auth.revokeRefreshTokens(uid) up to its first await: the authApiClient
\* getter or the uid check rejects the call, or the request is built from the
\* clock and the call yields at await this.getToken(env). A second caller
\* revokes the user's tokens while the first caller's call is in flight.
RevokeRefreshTokens(p) ==
    /\ MayCall(p)
    /\ \E uid \in {Str(Uid), Str("unknownUser"), Str("")} :
          /\ p = 2 => uid = Str(Uid)
          /\ \E settled \in {RevokeCompleted(RevokeCall(uid), origin.users)} :
                IF settled.out.requests = 0
                THEN call' = settled /\ UNCHANGED pending
                ELSE /\ pending' = [pending EXCEPT ![p] = RevokeCall(uid)]
                     /\ call' = NoCall
    /\ UNCHANGED <<now, cfg, req, kv, origin>>

\* await fetch(url, init) of the accounts:update request resolves: the
\* identity backend has recorded the request's validSince on the user it
\* knows and answered
RevokeAnswered(p) ==
    /\ pending[p].pc = "request"
    /\ pending[p].op = "revokeRefreshTokens"
    /\ LET answered == RevokeCompleted(pending[p], origin.users)
       IN  /\ origin' = [origin EXCEPT !.users = answered.left]
           /\ pending' = [pending EXCEPT ![p] =
                    [pc |-> "text", op |-> "revokeRefreshTokens",
                     settled |-> answered]]
    /\ UNCHANGED <<now, cfg, req, call, kv>>

\* await res.text() resolves: the body is parsed and validated and the
\* promise of the revocation settles
RevokeReturns(p) ==
    /\ pending[p].pc = "text"
    /\ pending[p].op = "revokeRefreshTokens"
    /\ call' = pending[p].settled
    /\ pending' = [pending EXCEPT ![p] = NotCalling]
    /\ UNCHANGED <<now, cfg, req, kv, origin>>

\* the backend disables the user (TestAuthApiClient.disableUser of the tests)
DisableUser ==
    /\ ~Truthy(Get(origin.users[1], "disabled"))
    /\ origin' = [origin EXCEPT !.users[1] =
                    UserJson(Get(@, "localId"), TRUE, Get(@, "validSince"))]
    /\ UNCHANGED <<pending, now, cfg, req, call, kv>>

\* half a second of wall-clock time passes
TickMillis ==
    /\ now < MaxNow * 500 + 500
    /\ now' = now + 500
    /\ UNCHANGED <<pending, cfg, req, call, kv, origin>>

NextAuth ==
    \/ \E p \in Callers :
          \/ VerifyIdToken(p) \/ VerifySessionCookie(p) \/ RevokeRefreshTokens(p)
          \/ GetAnswered(p) \/ FetchAnswered(p) \/ JsonRead(p) \/ PutApplied(p)
          \/ KeyImported(p) \/ SignatureVerified(p) \/ SignatureSettled(p)
          \/ TokenGranted(p) \/ LookupAnswered(p) \/ LookupReturns(p)
          \/ RevokeAnswered(p) \/ RevokeReturns(p)
    \/ DisableUser \/ TickMillis
SpecAuth == InitAuth /\ [][NextAuth]_vars

\* ------------------------------------------------------------ SpecSingleton
\* Auth.getOrInitialize and the static slots of the Auth class. An instance
\* is identified by the order of its construction.
\* new Auth(projectId, keyStore, credential) as the id-th object constructed,
\* or the exception of the BaseAuth constructor, which creates the ID token
\* verifier first
NewAuth(id, projectId, keyStore, credential) ==
    IF ~isNonEmptyString(projectId)
    THEN baseCreateIdTokenVerifier(projectId)
    ELSE [t |-> "object", id |-> id, projectId |-> projectId, keyStore |-> keyStore,
          credential |-> credential]

\* Auth.getOrInitialize on the statics [instance, withCredential]: the statics
\* after the call, its outcome and the instance returned. A constructor that
\* throws leaves its slot as it was.
Auth_getOrInitialize(statics, projectId, keyStore, credential) ==
    LET id == 1 + (IF statics.instance = Undefined THEN 0 ELSE 1)
                + (IF statics.withCredential = Undefined THEN 0 ELSE 1)
        thrown(auth) == "cls" \in DOMAIN auth
        withCredential ==
            IF statics.withCredential = Undefined /\ credential # Undefined
            THEN NewAuth(id, projectId, keyStore, credential)
            ELSE statics.withCredential
        instance ==
            IF withCredential = Undefined /\ statics.instance = Undefined
            THEN NewAuth(id, projectId, keyStore, Undefined)
            ELSE statics.instance
    IN  IF thrown(withCredential)
        THEN [statics |-> statics, res |-> withCredential, returned |-> Undefined]
        ELSE IF thrown(instance)
        THEN [statics |-> statics, res |-> instance, returned |-> Undefined]
        ELSE [statics |-> [instance |-> instance, withCredential |-> withCredential],
              res |-> Ok,
              returned |-> IF withCredential # Undefined THEN withCredential ELSE instance]

\* a fresh execution context: both static slots are unset and nothing has
\* been returned yet (req keeps the instance the first call that returned
\* one returned)
InitSingleton ==
    /\ pending = NonePending
    /\ now = 0
    /\ kv = Null
    /\ origin = NoOrigin
    /\ call = NoCall
    /\ cfg = [instance |-> Undefined, withCredential |-> Undefined]
    /\ req = [first |-> Undefined]

\* Auth.getOrInitialize(projectId, keyStore, credential)
GetOrInitialize ==
    \E projectId \in {Str(ProjectId), Str("project12345"), Str("")},
       keyStore \in {Str("kv1"), Str("kv2")},
       credential \in {Undefined, Str("serviceAccount1"), Str("serviceAccount2")} :
        LET o == Auth_getOrInitialize(cfg, projectId, keyStore, credential)
        IN  /\ cfg' = o.statics
            /\ call' = [op |-> "getOrInitialize", projectId |-> projectId,
                        keyStore |-> keyStore, credential |-> credential,
                        res |-> o.res, returned |-> o.returned]
            /\ req' = IF req.first = Undefined THEN [first |-> o.returned] ELSE req
            /\ UNCHANGED <<pending, now, kv, origin>>

SpecSingleton == InitSingleton /\ [][GetOrInitialize]_vars

\* ------------------------------------------------------------ base64
\* JS strings are sequences of UTF-16 code units, byte arrays sequences of
\* 0 .. 255. A call returns [res, value]: Ok with the value, or the exception.
Returned(value) == [res |-> Ok, value |-> value]

\* new TextEncoder().encode(str): UTF-8 of the code points of str, a high
\* surrogate followed by a low one being one code point above U+FFFF and a
\* lone surrogate becoming U+FFFD
TextEncoder_encode(str) ==
    LET utf8(c) ==
            IF c < 128 THEN << c >>
            ELSE IF c < 2048 THEN << 192 + (c \div 64), 128 + (c % 64) >>
            ELSE IF c < 65536
            THEN << 224 + (c \div 4096), 128 + ((c \div 64) % 64), 128 + (c % 64) >>
            ELSE << 240 + (c \div 262144), 128 + ((c \div 4096) % 64),
                    128 + ((c \div 64) % 64), 128 + (c % 64) >>
        RECURSIVE encode(_)
        encode(rest) ==
            IF rest = << >> THEN << >>
            ELSE IF /\ Head(rest) \in 55296 .. 56319
                    /\ Len(rest) >= 2 /\ rest[2] \in 56320 .. 57343
            THEN utf8(65536 + (Head(rest) - 55296) * 1024 + (rest[2] - 56320))
                 \o encode(SubSeq(rest, 3, Len(rest)))
            ELSE IF Head(rest) \in 55296 .. 57343
            THEN << 239, 191, 189 >> \o encode(Tail(rest))
            ELSE utf8(Head(rest)) \o encode(Tail(rest))
    IN  encode(str)

\* new TextDecoder().decode(bytes): the UTF-8 decoder of the Encoding
\* standard. st is the sequence under way: the bytes still needed, the code
\* point so far and the range lower .. upper the next byte has to be in. A
\* byte that starts or continues no sequence ends the sequence under way,
\* which becomes one U+FFFD, and is read again; so does the end of the input.
\* A code point above U+FFFF becomes a surrogate pair, and a leading
\* byte-order mark is dropped.
TextDecoder_decode(bytes) ==
    LET none == [needed |-> 0, cp |-> 0, lower |-> 128, upper |-> 191]
        utf16(cp) ==
            IF cp < 65536 THEN << cp >>
            ELSE << 55296 + ((cp - 65536) \div 1024), 56320 + ((cp - 65536) % 1024) >>
        lead(b) ==
            IF b \in 194 .. 223 THEN [none EXCEPT !.needed = 1, !.cp = b - 192]
            ELSE IF b \in 224 .. 239
            THEN [needed |-> 2, cp |-> b - 224,
                  lower |-> IF b = 224 THEN 160 ELSE 128,
                  upper |-> IF b = 237 THEN 159 ELSE 191]
            ELSE [needed |-> 3, cp |-> b - 240,
                  lower |-> IF b = 240 THEN 144 ELSE 128,
                  upper |-> IF b = 244 THEN 143 ELSE 191]
        RECURSIVE decode(_, _)
        decode(rest, st) ==
            IF rest = << >> THEN (IF st.needed = 0 THEN << >> ELSE << 65533 >>)
            ELSE IF st.needed = 0
            THEN IF Head(rest) < 128 THEN << Head(rest) >> \o decode(Tail(rest), none)
                 ELSE IF Head(rest) \in 194 .. 244
                 THEN decode(Tail(rest), lead(Head(rest)))
                 ELSE << 65533 >> \o decode(Tail(rest), none)
            ELSE IF Head(rest) \notin st.lower .. st.upper
            THEN << 65533 >> \o decode(rest, none)
            ELSE IF st.needed = 1
            THEN utf16(st.cp * 64 + (Head(rest) - 128)) \o decode(Tail(rest), none)
            ELSE decode(Tail(rest),
                        [needed |-> st.needed - 1, cp |-> st.cp * 64 + (Head(rest) - 128),
                         lower |-> 128, upper |-> 191])
        dropBOM(text) == IF text # << >> /\ Head(text) = 65279 THEN Tail(text) ELSE text
    IN  dropBOM(decode(bytes, none))

\* btoa(binary) of a string of characters 0 .. 255, padded with '=';
\* Base64Char is the character of a 6-bit value in A-Z a-z 0-9 + /
btoa(binary) ==
    LET Base64Char(v) ==
            IF v < 26 THEN 65 + v
            ELSE IF v < 52 THEN 97 + (v - 26)
            ELSE IF v < 62 THEN 48 + (v - 52)
            ELSE IF v = 62 THEN 43 ELSE 47
        RECURSIVE enc(_)
        enc(rest) ==
            IF rest = << >> THEN << >>
            ELSE IF Len(rest) = 1
            THEN << Base64Char(rest[1] \div 4), Base64Char((rest[1] % 4) * 16), 61, 61 >>
            ELSE IF Len(rest) = 2
            THEN << Base64Char(rest[1] \div 4),
                    Base64Char((rest[1] % 4) * 16 + (rest[2] \div 16)),
                    Base64Char((rest[2] % 16) * 4), 61 >>
            ELSE << Base64Char(rest[1] \div 4),
                    Base64Char((rest[1] % 4) * 16 + (rest[2] \div 16)),
                    Base64Char((rest[2] % 16) * 4 + (rest[3] \div 64)),
                    Base64Char(rest[3] % 64) >>
                 \o enc(SubSeq(rest, 4, Len(rest)))
    IN  enc(binary)

\* atob(str) as the runtime's forgiving base64 decoder does it: ASCII white
\* space is skipped everywhere; up to two '=' at the end are the padding; a
\* character outside the alphabet in what is left (an earlier '=' too) throws
\* 'Invalid character'; one character left over after the groups of four
\* throws 'not correctly encoded'; padding that does not complete the last
\* group throws 'Invalid character'. Base64Value is the 6-bit value of a
\* character, -1 outside the alphabet.
atob(str) ==
    LET Base64Value(c) ==
            IF c \in 65 .. 90 THEN c - 65
            ELSE IF c \in 97 .. 122 THEN c - 97 + 26
            ELSE IF c \in 48 .. 57 THEN c - 48 + 52
            ELSE IF c = 43 THEN 62
            ELSE IF c = 47 THEN 63 ELSE -1
        AsciiWhiteSpace == {32, 9, 10, 12, 13}
        RECURSIVE trimEnd(_)
        trimEnd(s) == IF s # << >> /\ s[Len(s)] \in AsciiWhiteSpace
                      THEN trimEnd(SubSeq(s, 1, Len(s) - 1)) ELSE s
        \* at most pads more '=' taken from the end of s
        RECURSIVE unpad(_, _, _)
        unpad(s, pads, taken) ==
            IF pads > 0 /\ trimEnd(s) # << >> /\ trimEnd(s)[Len(trimEnd(s))] = 61
            THEN unpad(SubSeq(trimEnd(s), 1, Len(trimEnd(s)) - 1), pads - 1, taken + 1)
            ELSE [data |-> IF taken = 0 THEN trimEnd(s) ELSE s, equalsigns |-> taken]
        RECURSIVE dec(_)
        dec(rest) ==
            IF Len(rest) < 2 THEN << >>
            ELSE LET v == [i \in 1 .. Len(rest) |-> Base64Value(rest[i])]
                 IN  IF Len(rest) = 2 THEN << v[1] * 4 + (v[2] \div 16) >>
                     ELSE IF Len(rest) = 3
                     THEN << v[1] * 4 + (v[2] \div 16), (v[2] % 16) * 16 + (v[3] \div 4) >>
                     ELSE << v[1] * 4 + (v[2] \div 16), (v[2] % 16) * 16 + (v[3] \div 4),
                             (v[3] % 4) * 64 + v[4] >>
                          \o dec(SubSeq(rest, 5, Len(rest)))
        decoded(equalsigns, chars) ==
            IF chars = << >>
            THEN IF equalsigns > 0
                 THEN [res |-> DOMException("Invalid character"), value |-> << >>]
                 ELSE Returned(<< >>)
            ELSE IF \E i \in 1 .. Len(chars) : Base64Value(chars[i]) = -1
            THEN [res |-> DOMException("Invalid character"), value |-> << >>]
            ELSE IF Len(chars) % 4 = 1
            THEN [res |-> DOMException("The string to be decoded is not correctly encoded."),
                  value |-> << >>]
            ELSE IF /\ equalsigns > 0
                    /\ (Len(chars) % 4 = 0 \/ (Len(chars) % 4) + equalsigns # 4)
            THEN [res |-> DOMException("Invalid character"), value |-> << >>]
            ELSE Returned(dec(chars))
        unpadded(u) ==
            decoded(u.equalsigns, SelectSeq(u.data, LAMBDA c : c \notin AsciiWhiteSpace))
    IN  unpadded(unpad(str, 2, 0))

\* pad
pad(s) ==
    CASE Len(s) % 4 = 2 -> s \o << 61, 61 >>
      [] Len(s) % 4 = 3 -> s \o << 61 >>
      [] OTHER -> s

\* str.replace(regexp, m => map[m]): every character from is replaced by to
Replace(str, from1, to1, from2, to2) ==
    [i \in 1 .. Len(str) |->
        IF str[i] = from1 THEN to1 ELSE IF str[i] = from2 THEN to2 ELSE str[i]]

\* encodeBase64
encodeBase64(str) == pad(btoa(TextEncoder_encode(str)))

\* decodeBase64
decodeBase64(str) ==
    LET binary == atob(pad(str))
    IN  IF ~binary.res.ok THEN binary
        ELSE Returned(TextDecoder_decode(binary.value))

\* encodeBase64Url: '/' becomes '_' and '+' becomes '-' in the encoded text
encodeBase64Url(str) == Replace(encodeBase64(str), 47, 95, 43, 45)

\* decodeBase64Url: '_' becomes '/' and '-' becomes '+' in the decoded text
decodeBase64Url(str) ==
    LET decoded == decodeBase64(str)
    IN  IF ~decoded.res.ok THEN decoded
        ELSE Returned(Replace(decoded.value, 95, 47, 45, 43))

\* encodeBase64UrlBytes: String.fromCharCode turns each byte into the
\* character with that code, then encodeBase64Url
encodeBase64UrlBytes(buf) == encodeBase64Url(buf)

\* decodeBase64UrlBytes: the UTF-8 bytes of the decoded text
decodeBase64UrlBytes(str) ==
    LET decoded == decodeBase64Url(str)
    IN  IF ~decoded.res.ok THEN decoded
        ELSE Returned(TextEncoder_encode(decoded.value))

\* ------------------------------------------------------------ SpecBase64
\* Encoding and decoding again every string and every byte array of up to
\* MaxLen elements over characters and bytes the encoder treats differently:
\* '-', '_', 'f', '?' and '~' (whose encodings contain '/' and '+'), 0xfb,
\* U+4E16 and the surrogates 0xD83D and 0xDE00 (together U+1F600).
MaxLen == 3
InitBase64 ==
    /\ pending = NonePending
    /\ now = 0
    /\ kv = Null
    /\ origin = NoOrigin
    /\ cfg = Null
    /\ call = NoCall
    /\ LET Seqs(S) == UNION {[1 .. n -> S] : n \in 0 .. MaxLen}
       IN  req \in [text : Seqs({45, 95, 102, 63, 126, 251, 19990, 55357, 56832})]
                   \cup [bytes : Seqs({45, 95, 102, 63, 126, 251})]

\* decodeBase64Url(encodeBase64Url(str))
RoundTrip ==
    /\ "text" \in DOMAIN req
    /\ call' = [op |-> "roundTrip", input |-> req.text,
                encoded |-> encodeBase64Url(req.text),
                out |-> decodeBase64Url(encodeBase64Url(req.text))]
    /\ UNCHANGED <<pending, now, cfg, req, kv, origin>>

\* decodeBase64UrlBytes(encodeBase64UrlBytes(buf))
RoundTripBytes ==
    /\ "bytes" \in DOMAIN req
    /\ call' = [op |-> "roundTripBytes", input |-> req.bytes,
                encoded |-> encodeBase64UrlBytes(req.bytes),
                out |-> decodeBase64UrlBytes(encodeBase64UrlBytes(req.bytes))]
    /\ UNCHANGED <<pending, now, cfg, req, kv, origin>>

NextBase64 == RoundTrip \/ RoundTripBytes
SpecBase64 == InitBase64 /\ [][NextBase64]_vars

\* ------------------------------------------------------------ SpecRace
\* Two callers of fetchPublicKeys whose calls interleave at the awaits of
\* keyStorer.get(), fetcher.fetch(), resp.json(), the importKey and exportKey
\* of every certificate (certificate-map revision) and keyStorer.put(),
\* against an endpoint that may rotate its keys at any moment. call[p] is
\* caller p's position (cert is the certificate under conversion; at a put,
\* stored tells whether the store has applied it); req keeps the response
\* whose keys the store was last asked to put.
MaxCalls == 2
Idle(n) ==
    [pc |-> "idle", n |-> n, entry |-> Null, resp |-> NoOrigin, fetches |-> 0,
     cert |-> 0, stored |-> FALSE, out |-> NoFetch]

InitRace ==
    /\ pending = NonePending
    /\ now = 0
    /\ \E rev \in {"x509", "jwk"} :
          /\ cfg = [kind |-> "idToken", rev |-> rev]
          /\ origin \in {Response(TRUE, GoodBody(rev), h) :
                            h \in {Parts(<< <<"max-age", << 54, 48 >> >> >>),
                                   Parts(<< <<"public">>, <<"max-age", << 49, 56, 55, 57, 51 >> >>,
                                            <<"must-revalidate">>, <<"no-transform">> >>)}}
    /\ kv = Null
    /\ call = [p \in 1 .. 2 |-> Idle(0)]
    /\ req = [lastPut |-> Null]

\* caller p calls fetchPublicKeys()
StartFetch(p) ==
    /\ call[p].pc \in {"idle", "done"}
    /\ call[p].n < MaxCalls
    /\ call' = [call EXCEPT ![p] = [Idle(call[p].n + 1) EXCEPT !.pc = "get"]]
    /\ UNCHANGED <<pending, now, cfg, req, kv, origin>>

\* await this.keyStorer.get(): a cached object is returned, anything else
\* leads to refresh()
AwaitGet(p) ==
    /\ call[p].pc = "get"
    /\ LET publicKeys == KVGet(kv)
       IN  call' = [call EXCEPT ![p] =
                IF publicKeys.t = "null" \/ publicKeys.t \notin {"object", "array"}
                THEN [@ EXCEPT !.pc = "fetch", !.entry = kv]
                ELSE [@ EXCEPT !.pc = "done", !.entry = kv,
                               !.out = fetchPublicKeys(cfg.rev, kv, origin)]]
    /\ UNCHANGED <<pending, now, cfg, req, kv, origin>>

\* await this.fetcher.fetch(): the response the endpoint gives at this moment
AwaitFetch(p) ==
    /\ call[p].pc = "fetch"
    /\ call' = [call EXCEPT ![p] =
                    [@ EXCEPT !.pc = "json", !.resp = origin, !.fetches = @ + 1]]
    /\ UNCHANGED <<pending, now, cfg, req, kv, origin>>

\* the call once refresh() has built the keys of its response: it returns
\* them (or rejects), or asks the store to put them
KeysOfResponse(c) ==
    LET goesOn(out) == [c EXCEPT !.pc = IF out.put.done THEN "put" ELSE "done",
                                 !.out = out]
    IN  goesOn(refresh(cfg.rev, c.resp))

\* the loop of refresh() over the certificates from the i-th on: new
\* crypto.X509Certificate throws, or the call yields at importKey
CertificateFrom(c, i) ==
    IF i > Len(c.resp.body.fields) \/ PemMaterial(c.resp.body.fields[i].v.s) = ""
    THEN KeysOfResponse(c)
    ELSE [c EXCEPT !.pc = "certImport", !.cert = i]

\* await resp.json() resolves (the endpoints here answer 200 with a JSON
\* body): the shape check, then the first certificate or, in the key-set
\* revision, the keys of the body
AwaitJson(p) ==
    /\ call[p].pc = "json"
    /\ call' = [call EXCEPT ![p] =
                    IF cfg.rev = "x509" /\ acceptsBody(cfg.rev, @.resp.body)
                    THEN CertificateFrom(@, 1)
                    ELSE KeysOfResponse(@)]
    /\ UNCHANGED <<pending, now, cfg, req, kv, origin>>

\* await crypto.subtle.importKey(...) of x509ToJwk resolves
AwaitImportKey(p) ==
    /\ call[p].pc = "certImport"
    /\ call' = [call EXCEPT ![p] = [@ EXCEPT !.pc = "certExport"]]
    /\ UNCHANGED <<pending, now, cfg, req, kv, origin>>

\* await crypto.subtle.exportKey(...) of x509ToJwk resolves: the next
\* certificate, or the end of the loop
AwaitExportKey(p) ==
    /\ call[p].pc = "certExport"
    /\ call' = [call EXCEPT ![p] = CertificateFrom(@, @.cert + 1)]
    /\ UNCHANGED <<pending, now, cfg, req, kv, origin>>

\* the store applies the put of caller p, who is still suspended at
\* await this.keyStorer.put(...)
PutStored(p) ==
    /\ call[p].pc = "put"
    /\ ~call[p].stored
    /\ kv' = KVAfter(kv, call[p].out)
    /\ req' = [lastPut |-> call[p].resp]
    /\ call' = [call EXCEPT ![p] = [@ EXCEPT !.stored = TRUE]]
    /\ UNCHANGED <<pending, now, cfg, origin>>

\* await this.keyStorer.put(...) resolves and refresh() returns the keys
AwaitPut(p) ==
    /\ call[p].pc = "put"
    /\ call[p].stored
    /\ call' = [call EXCEPT ![p] = [@ EXCEPT !.pc = "done"]]
    /\ UNCHANGED <<pending, now, cfg, req, kv, origin>>

NextRace ==
    \/ \E p \in 1 .. 2 :
          \/ StartFetch(p) \/ AwaitGet(p) \/ AwaitFetch(p) \/ AwaitJson(p)
          \/ AwaitImportKey(p) \/ AwaitExportKey(p)
          \/ PutStored(p) \/ AwaitPut(p)
    \/ RotateKeys
SpecRace == InitRace /\ [][NextRace]_vars

\* ------------------------------------------------------------ x509
\* parseElement(bytes) on a Uint8Array, kept as a sequence of bytes. A read
\* past the end gives undefined (-1 here): undefined compares false with every
\* number, undefined & mask is 0, and length * 256 + undefined is NaN.
parseElement(bytes) ==
    LET At(i) == IF i < Len(bytes) THEN bytes[i + 1] ELSE -1
        subarray(begin, end) ==
            SubSeq(bytes, Min(begin, Len(bytes)) + 1, Min(end, Len(bytes)))
        RECURSIVE tagEnd(_)
        tagEnd(p) == IF At(p) >= 128 THEN tagEnd(p + 1) ELSE p + 1
        position == IF At(0) # -1 /\ At(0) % 32 = 31 THEN tagEnd(1) ELSE 1
        length == 0
        RECURSIVE scan(_)
        scan(n) ==
            IF At(position + n) # 0 \/ At(position + n + 1) # 0
            THEN IF n > Len(bytes) THEN -1 ELSE scan(n + 1)
            ELSE n
        numberOfDigits == IF At(position) = -1 THEN 0 ELSE At(position) % 128
        RECURSIVE digits(_, _)
        digits(i, acc) ==
            IF i = numberOfDigits THEN acc
            ELSE IF acc = -1 \/ At(position + 1 + i) = -1 THEN digits(i + 1, -1)
            ELSE digits(i + 1, acc * 256 + At(position + 1 + i))
        element(contentsAt, len) ==
            [ok |-> TRUE, byteLength |-> Num(contentsAt + len),
             contents |-> subarray(contentsAt, contentsAt + len),
             raw |-> subarray(0, contentsAt + len)]
    IN  IF At(position) # -1 /\ At(position) < 128
        THEN element(position + 1, At(position))
        ELSE IF length = 128
        THEN IF scan(0) = -1
             THEN Thrown("TypeError", "", "invalid indefinite form length")
             ELSE [ok |-> TRUE, byteLength |-> Num(position + scan(0) + 2),
                   contents |-> subarray(position, position + scan(0)),
                   raw |-> subarray(0, position + scan(0) + 2)]
        ELSE IF digits(0, 0) = -1
        THEN [ok |-> TRUE, byteLength |-> NaN, contents |-> <<>>, raw |-> <<>>]
        ELSE element(position + 1 + numberOfDigits, digits(0, 0))

\* ------------------------------------------------------------ SpecDer
\* parseElement applied to byte arrays of up to MaxDerLen bytes
MaxDerLen == 5

InitDer ==
    /\ pending = NonePending
    /\ now = 0
    /\ cfg = Null
    /\ kv = Null
    /\ origin = Null
    /\ call = NoCall
    /\ \E n \in 0 .. MaxDerLen :
          \E bytes \in [1 .. n -> {0, 1, 31, 48, 128, 129, 130}] :
              req = [op |-> "parseElement", bytes |-> bytes]

\* parseElement(bytes)
ParseElement ==
    /\ req.op = "parseElement"
    /\ call = NoCall
    /\ call' = [op |-> "parseElement", bytes |-> req.bytes, out |-> parseElement(req.bytes)]
    /\ UNCHANGED <<pending, now, cfg, req, kv, origin>>

SpecDer == InitDer /\ [][ParseElement]_vars

\* ------------------------------------------------------------ claims
\* ---- verifyJWT (Spec, SpecPolicy)
\* the call got past the argument checks and the decode
Decoded(c) == c.op = "verifyJWT" /\ c.stage \in {"payload", "signature", "done"}
\* the call got past the payload policy as well
PassedPolicy(c) == c.op = "verifyJWT" /\ c.stage \in {"signature", "done"}

\* C1: a verifyJWT call with isEmulator = false resolves only if
\* PublicKeySignatureVerifier.verify ran on the token and succeeded against the
\* fetched keys; the emulator verifier is used only when isEmulator is true,
\* and then a token that decodes and passes the payload policy is accepted
\* with no key fetch and no cache write whatever its kid and signature; this
\* holds for calls made after emulator-mode calls too.
C1_SignatureCheckedUnlessEmulator ==
    call.op = "verifyJWT" =>
        /\ (~call.isEmulator /\ call.res.ok) =>
              /\ call.verifier = "publicKey"
              /\ call.sig = Ok
              /\ PublicKeySignatureVerifier_verify(
                    call.jwt, fetchPublicKeys(cfg.rev, call.entry, call.resp)) = Ok
        /\ call.verifier = "emulator" => call.isEmulator
        /\ (call.isEmulator /\ PassedPolicy(call)) =>
              /\ call.verifier = "emulator"
              /\ call.res.ok
              /\ call.out.fetched = 0
              /\ call.after = call.entry

\* a non-emulator call, made after an emulator-mode call, rejected on the
\* signature check
C1_Witness ==
    /\ call.op = "verifyJWT"
    /\ ~call.isEmulator
    /\ call.priorEmulator
    /\ call.stage = "signature"
    /\ call.verifier = "publicKey"
    /\ call.sig.code \in {JwtErrorCode.INVALID_SIGNATURE, JwtErrorCode.NO_MATCHING_KID}
    /\ ~call.res.ok

\* the payload conditions of the claim, against the call's reference timestamp
PolicyHolds(c) ==
    LET payload == c.jwt.payload
        this == Verifier(c.kind)
    IN  /\ payload.aud.s \in {this.projectId, FIREBASE_AUDIENCE}
        /\ payload.iss.s = this.issuer \o this.projectId
        /\ Len(payload.sub.s) <= MaxSubLength
        /\ isNumber(payload.auth_time)
        /\ payload.auth_time.n <= c.currentTimestamp
\* the message of the first condition the payload violates
PolicyMessage(c) ==
    LET payload == c.jwt.payload
        this == Verifier(c.kind)
        jwtName == IF c.kind = "idToken" THEN "Firebase ID token"
                   ELSE "Firebase session cookie"
    IN  IF payload.aud.s \notin {this.projectId, FIREBASE_AUDIENCE}
        THEN jwtName \o " has incorrect \"aud\" (audience) claim."
        ELSE IF payload.iss.s # this.issuer \o this.projectId
        THEN jwtName \o " has incorrect \"iss\" (issuer) claim."
        ELSE IF Len(payload.sub.s) > MaxSubLength
        THEN jwtName \o " has \"sub\" (subject) claim longer than 128 characters."
        ELSE IF ~isNumber(payload.auth_time)
        THEN jwtName \o " has no \"auth_time\" claim."
        ELSE jwtName \o " has incorrect \"auth_time\" claim."

\* C2: after a successful decode, verifyJWT lets the payload through if and
\* only if aud is the project id or FIREBASE_AUDIENCE, iss is the verifier's
\* issuer prefix followed by the project id, sub has at most 128 characters,
\* auth_time is a number and auth_time is not later than the reference
\* timestamp; a payload that violates a condition is rejected with
\* auth/argument-error and the message naming the (first) violated claim, for
\* the ID-token and the session-cookie verifier alike.
C2_PayloadPolicy ==
    Decoded(call) =>
        /\ PassedPolicy(call) <=> PolicyHolds(call)
        /\ ~PassedPolicy(call) =>
              /\ ~call.res.ok
              /\ call.res.cls = "FirebaseAuthError"
              /\ call.res.code = "auth/argument-error"
              /\ call.res.msg = PolicyMessage(call)

\* a session cookie accepted on the boundaries: 128-character sub, auth_time
\* equal to the reference timestamp, the FIREBASE_AUDIENCE audience
C2_Witness ==
    /\ call.op = "verifyJWT"
    /\ call.kind = "sessionCookie"
    /\ call.res.ok
    /\ Len(call.jwt.payload.sub.s) = MaxSubLength
    /\ call.jwt.payload.auth_time.n = call.currentTimestamp
    /\ call.jwt.payload.aud.s = FIREBASE_AUDIENCE

\* C3: a token the decoder reports as expired is rejected by verifyJWT with
\* the verifier's own expired code (auth/id-token-expired or
\* auth/session-cookie-expired), not with auth/argument-error.
C3_ExpiredErrorCode ==
    (/\ call.op = "verifyJWT"
     /\ call.stage # "argument"
     /\ RS256Token_decode(call.jwt, call.currentTimestamp).code = JwtErrorCode.TOKEN_EXPIRED) =>
        /\ ~call.res.ok
        /\ call.res.code =
              (IF call.kind = "idToken" THEN "auth/id-token-expired"
               ELSE "auth/session-cookie-expired")

\* C4: for an integer clockSkewSeconds s in 0..60 verifyJWT decodes against
\* now + s, so that a token with now < iat <= now + s (and otherwise valid) is
\* accepted.
C4_ClockSkewApplied ==
    (call.op = "verifyJWT" /\ call.stage # "argument") =>
        /\ call.currentTimestamp = call.now + call.clockSkewSeconds.n
        /\ (/\ call.isEmulator
            /\ call.jwt.parts = 3
            /\ call.now < call.jwt.payload.iat.n
            /\ call.jwt.payload.iat.n <= call.now + call.clockSkewSeconds.n
            /\ call.jwt.payload.exp.n > call.now + call.clockSkewSeconds.n) =>
              call.res.ok

\* ---- decoder (SpecDecode)
\* The decode call reached the iat comparison: everything checked before it passed.
ReachedIat(c) ==
    /\ c.op = "decode"
    /\ c.jwt.parts = 3
    /\ decodeHeader(c.jwt.header).ok
    /\ c.jwt.payload.t = "object"
    /\ isNonEmptyString(c.jwt.payload.aud)
    /\ isNonEmptyString(c.jwt.payload.sub)
    /\ isNonEmptyString(c.jwt.payload.iss)
    /\ isNumber(c.jwt.payload.iat)

FailedOnIat(c) ==
    /\ ~c.res.ok
    /\ c.res.code = JwtErrorCode.INVALID_ARGUMENT
    /\ c.res.msg = "Incorrect \"iat\" claim must be a older than"

\* The decode call reached the exp comparison.
ReachedExp(c) ==
    /\ ReachedIat(c)
    /\ ~FailedOnIat(c)
    /\ isNumber(c.jwt.payload.exp)

\* C5: RS256Token.decode(token, now) fails on the iat check if and only if
\* iat > now; iat == now is valid.
C5_IatEqualNowValid ==
    ReachedIat(call) =>
        (FailedOnIat(call) <=> call.jwt.payload.iat.n > call.currentTimestamp)

\* C6: RS256Token.decode(token, now) fails with TOKEN_EXPIRED for every token
\* with exp <= now (exp == now included) and never when exp > now.
C6_ExpiredAtOrBeforeNow ==
    ReachedExp(call) =>
        ((~call.res.ok /\ call.res.code = JwtErrorCode.TOKEN_EXPIRED)
            <=> call.jwt.payload.exp.n <= call.currentTimestamp)



\* ---- key fetcher and signature verifier (SpecKeys)
\* indexes of the fetched keys whose kid is the token's header kid
MatchingKids(c) ==
    {i \in 1 .. Len(c.out.keys) : c.out.keys[i].kid = c.jwt.header.kid.s}
FirstMatch(c) ==
    CHOOSE i \in MatchingKids(c) : \A j \in MatchingKids(c) : i <= j
SignatureVerifies(key, token) == key.importable /\ cryptoVerify(key, token)

\* C7 (as stated): PublicKeySignatureVerifier.verify fails KEY_FETCH_ERROR when
\* the fetcher fails, NO_MATCHING_KID when no fetched key has the header kid,
\* and otherwise the first key in fetch order with that kid alone decides:
\* success if the signature verifies, else INVALID_SIGNATURE with the message
\* 'The token signature is invalid.'.
C7_FirstKeyDecidesOneMessage ==
    call.op = "verify" =>
        IF ~call.out.res.ok
        THEN ~call.res.ok /\ call.res.code = JwtErrorCode.KEY_FETCH_ERROR
        ELSE IF MatchingKids(call) = {}
        THEN ~call.res.ok /\ call.res.code = JwtErrorCode.NO_MATCHING_KID
        ELSE IF SignatureVerifies(call.out.keys[FirstMatch(call)], call.jwt)
        THEN call.res = Ok
        ELSE /\ ~call.res.ok
             /\ call.res.code = JwtErrorCode.INVALID_SIGNATURE
             /\ call.res.msg = "The token signature is invalid."

\* C7 (amended): as above, except that the INVALID_SIGNATURE message is
\* 'The token signature is invalid.' only when the verification returned
\* false; when importing the first matching key (or verifying with it) throws,
\* the failure is INVALID_SIGNATURE with the message 'Error verifying
\* signature: ...'. Later keys with the same kid are never tried.
C7_FirstKeyDecides ==
    call.op = "verify" =>
        IF ~call.out.res.ok
        THEN ~call.res.ok /\ call.res.code = JwtErrorCode.KEY_FETCH_ERROR
        ELSE IF MatchingKids(call) = {}
        THEN ~call.res.ok /\ call.res.code = JwtErrorCode.NO_MATCHING_KID
        ELSE IF SignatureVerifies(call.out.keys[FirstMatch(call)], call.jwt)
        THEN call.res = Ok
        ELSE /\ ~call.res.ok
             /\ call.res.code = JwtErrorCode.INVALID_SIGNATURE
             /\ call.res.msg =
                    IF call.out.keys[FirstMatch(call)].importable
                    THEN "The token signature is invalid."
                    ELSE "Error verifying signature: "

\* a verify call rejected on the first matching key although a later key with
\* the same kid would have verified the signature
C7_Witness ==
    /\ call.op = "verify"
    /\ call.out.res.ok
    /\ \E i, j \in MatchingKids(call) :
          /\ i < j
          /\ i = FirstMatch(call)
          /\ ~SignatureVerifies(call.out.keys[i], call.jwt)
          /\ SignatureVerifies(call.out.keys[j], call.jwt)
    /\ ~call.res.ok
    /\ call.res.code = JwtErrorCode.INVALID_SIGNATURE

\* the response carries a max-age directive whose value is a positive number
PositiveMaxAge(resp) ==
    LET maxAge == parseMaxAge(resp.cc) IN ~isNaN(maxAge) /\ GreaterThanZero(maxAge)
CacheMiss(entry) ==
    \/ entry.t = "null"
    \/ entry.t \in {"string", "number", "undefined"}

\* C8: a fetchPublicKeys call performs an HTTP fetch (exactly one) if and only
\* if the cache returned null or a non-object. From an empty cache a successful
\* call against a response with a positive max-age fetches once and stores the
\* keys it returns; every call made while the entry is present fetches nothing
\* and returns the stored array, which equals what the storing call returned;
\* once the entry is gone the next call fetches once again.
C8_FetchOnlyOnCacheMiss ==
    call.op = "fetchPublicKeys" =>
        /\ call.out.fetched = (IF CacheMiss(call.entry) THEN 1 ELSE 0)
        /\ (call.entry = Null /\ call.out.res.ok /\ PositiveMaxAge(call.resp)) =>
              /\ call.out.fetched = 1
              /\ call.after.t = "stored"
              /\ KVGet(call.after) = [t |-> "array", items |-> call.out.keys]
        /\ call.entry.t = "stored" =>
              /\ call.out.fetched = 0
              /\ call.out.res.ok
              /\ call.out.keys = KVGet(call.entry).items
              /\ call.after = call.entry

\* a call served from the cache after the endpoint has rotated its keys
C8_Witness ==
    /\ call.op = "fetchPublicKeys"
    /\ call.entry.t = "stored"
    /\ origin.ok
    /\ refresh(cfg.rev, origin).res.ok
    /\ call.out.keys # refresh(cfg.rev, origin).keys
    /\ call.out.fetched = 0
    /\ call.out.res.ok
    /\ Len(call.out.keys) > 0

\* C9: a successful refresh writes the cache if and only if the response has a
\* max-age directive whose value is a valid positive number, with a TTL of
\* exactly that number of seconds; with max-age absent, non-numeric, zero or
\* negative nothing is stored.
C9_StoresIffPositiveMaxAge ==
    (call.op = "fetchPublicKeys" /\ call.out.fetched = 1 /\ call.out.res.ok) =>
        /\ call.out.put.done <=> PositiveMaxAge(call.resp)
        /\ call.out.put.done => call.out.put.ttl = parseMaxAge(call.resp.cc)

\* the two response shapes
CertificateMapShape(body) ==
    /\ isNonNullObject(body)
    /\ Len(body.fields) > 0
    /\ \A i \in 1 .. Len(body.fields) : isNonEmptyString(body.fields[i].v)
KeySetShape(body) == isNonNullObject(body) /\ isArray(Get(body, "keys"))

\* C10: a refresh treats a body whose values are all non-empty strings as a
\* certificate map (each entry converted under its kid); failing that, a body
\* with a keys array is a key set whose array is used directly; a body of
\* neither shape, such as {}, is rejected with 'The public keys are not an
\* object or null: ...'.
C10_ShapeDetection ==
    (/\ call.op = "fetchPublicKeys" /\ call.out.fetched = 1
     /\ call.resp.ok /\ call.resp.body.t # "invalid") =>
        IF CertificateMapShape(call.resp.body)
        THEN \/ /\ call.out.res.ok
                /\ Len(call.out.keys) = Len(call.resp.body.fields)
                /\ \A i \in 1 .. Len(call.out.keys) :
                      call.out.keys[i].kid = call.resp.body.fields[i].k
             \/ /\ ~call.out.res.ok
                /\ call.out.res.msg # "The public keys are not an object or null: "
        ELSE IF KeySetShape(call.resp.body)
        THEN call.out.res.ok /\ call.out.keys = Get(call.resp.body, "keys").items
        ELSE /\ ~call.out.res.ok
             /\ call.out.res.msg = "The public keys are not an object or null: "


\* ---- client (SpecClient)
\* the status codes the call's configuration retries
RetryableStatus(c, status) ==
    /\ c.retryConfig.statusCodes # Undefined
    /\ \E i \in 1 .. Len(c.retryConfig.statusCodes.items) :
          c.retryConfig.statusCodes.items[i] = status
\* the request validator of the call's endpoint accepts the request data
RequestAccepted(c) ==
    ~Truthy(c.requestData) \/ requestValidator(c.api, c.requestData).ok
\* the answer is a 503 response
Is503(resp) == IF resp.kind = "http" THEN resp.status = 503 ELSE FALSE
\* the answer is a 2xx response with a JSON body
Is2xxJSON(resp) ==
    IF resp.kind = "http" THEN Response_ok(resp) /\ resp.body.t # "invalid" ELSE FALSE
\* k: the number of 503 answers the call had before any other answer
Leading503(c) ==
    CHOOSE k \in 0 .. Len(c.answers) :
        /\ \A i \in 1 .. k : Is503(c.answers[i])
        /\ IF k < Len(c.answers) THEN ~Is503(c.answers[k + 1]) ELSE TRUE
\* the server answered 503 to the first k requests and then 2xx with JSON
Answers503Then2xx(c) ==
    IF Leading503(c) < Len(c.answers) THEN Is2xxJSON(c.answers[Leading503(c) + 1]) ELSE FALSE

\* C11 (as stated): with 503 among the retryable status codes and
\* maxRetries = m, when the server answers 503 to the first k <= m requests
\* and then 2xx with a JSON body, BaseClient.fetch resolves with that parsed
\* body after exactly k + 1 requests.
C11_RetryThenSucceedAnyMaxDelay ==
    (/\ call.op = "fetch"
     /\ RequestAccepted(call)
     /\ RetryableStatus(call, 503)
     /\ Leading503(call) <= call.retryConfig.maxRetries) =>
        /\ Len(call.answers) > Leading503(call)
        /\ Answers503Then2xx(call) =>
              /\ call.out.res.ok
              /\ call.out.value = call.answers[Leading503(call) + 1].body
              /\ call.out.requests = Leading503(call) + 1
              /\ Len(call.out.delays) = Leading503(call)

\* C11 (amended): as above for a client whose maxDelayInMillis is not
\* negative. (A negative maxDelayInMillis is below the delay 0 of the first
\* retry, and the call fails on the first 503.)
C11_RetryThenSucceed ==
    (/\ call.op = "fetch"
     /\ RequestAccepted(call)
     /\ RetryableStatus(call, 503)
     /\ call.retryConfig.maxDelayInMillis >= 0
     /\ Leading503(call) <= call.retryConfig.maxRetries) =>
        /\ Len(call.answers) > Leading503(call)
        /\ Answers503Then2xx(call) =>
              /\ call.out.res.ok
              /\ call.out.value = call.answers[Leading503(call) + 1].body
              /\ call.out.requests = Leading503(call) + 1
              /\ Len(call.out.delays) = Leading503(call)

\* the authors' case: maxRetries 4, three 503 answers, success on the fourth
\* request
C11_Witness ==
    /\ call.op = "fetch"
    /\ RetryableStatus(call, 503)
    /\ call.retryConfig.maxDelayInMillis >= 0
    /\ Answers503Then2xx(call)
    /\ call.retryConfig.maxRetries = 4
    /\ Leading503(call) = 3
    /\ call.out.res.ok
    /\ call.out.requests = 4

\* every answer the call had is a failure with a retryable status
AllAttemptsFailRetryable(c) ==
    \A n \in 1 .. Len(c.answers) :
        LET resp == c.answers[n]
        IN  /\ resp.kind = "http"
            /\ ~Response_ok(resp)
            /\ RetryableStatus(c, resp.status)

\* C12: when every attempt fails with a retryable status, BaseClient.fetch
\* rejects with a FirebaseAppError app/internal-error that reports the status
\* of the last answer, after maxRetries + 1 requests unless maxDelayInMillis
\* is negative; no failing call rejects with the raw HttpError or the raw
\* transport error.
C12_WrappedErrorAfterRetries ==
    (call.op = "fetch" /\ RequestAccepted(call)) =>
        /\ AllAttemptsFailRetryable(call) =>
              /\ ~call.out.res.ok
              /\ call.out.res.cls = "FirebaseAppError"
              /\ call.out.res.code = "app/internal-error"
              /\ call.out.status = call.answers[call.out.requests].status
              /\ call.retryConfig.maxDelayInMillis >= 0 =>
                    call.out.requests = call.retryConfig.maxRetries + 1
        /\ ~call.out.res.ok => call.out.res.cls = "FirebaseAppError"

\* the authors' case: maxRetries 4 and five 503 answers
C12_Witness ==
    /\ call.op = "fetch"
    /\ call.retryConfig.maxRetries = 4
    /\ Len(call.answers) = 5
    /\ AllAttemptsFailRetryable(call)
    /\ call.out.requests = 5
    /\ call.out.res.code = "app/internal-error"

\* C13: a createSessionCookie call whose HTTP exchange succeeds with a JSON
\* object that the endpoint's response validator rejects (no non-empty
\* sessionCookie) fails with auth/internal-error instead of returning a
\* result.
C13_ResponseValidated ==
    (/\ call.op = "createSessionCookie"
     /\ call.out.requests > 0
     /\ LET resp == call.answers[call.out.requests]
        IN  /\ resp.kind = "http" /\ Response_ok(resp)
            /\ resp.body.t = "object"
            /\ ~responseValidator("createSessionCookie", resp.body).ok) =>
        /\ ~call.out.res.ok
        /\ call.out.res.code = "auth/internal-error"

\* the duration the claim accepts: a number of milliseconds whose thousandth
\* lies in [300, 1209600]
DurationInRange(options) ==
    /\ isNonNullObject(options)
    /\ options.expiresIn.t = "number"
    /\ options.expiresIn.n >= MIN_SESSION_COOKIE_DURATION_SECS * 1000
    /\ options.expiresIn.n <= MAX_SESSION_COOKIE_DURATION_SECS * 1000

\* C14: on an Auth with a credential, createSessionCookie (given an ID token
\* string) goes on to the HTTP request if and only if expiresIn is a number
\* and expiresIn / 1000 lies in [300, 1209600]; otherwise it fails with
\* auth/invalid-session-cookie-duration and issues no HTTP request.
C14_DurationBounds ==
    (/\ call.op = "createSessionCookie"
     /\ call.credential
     /\ isNonEmptyString(call.idToken)) =>
        IF DurationInRange(call.sessionCookieOptions)
        THEN call.out.requests > 0
        ELSE /\ ~call.out.res.ok
             /\ call.out.res.code = "auth/invalid-session-cookie-duration"
             /\ call.out.requests = 0

\* the n-th attempt of the call failed: fetch() threw, the status is not 2xx
\* or the body is no JSON
AttemptFailed(c, n) ==
    LET resp == c.answers[n]
    IN  resp.kind = "error" \/ ~Response_ok(resp) \/ resp.body.t = "invalid"
\* the failure of the n-th attempt is one the retry policy retries
RetriedFailure(c, n) ==
    LET resp == c.answers[n]
    IN  /\ n - 1 < c.retryConfig.maxRetries
        /\ IF resp.kind = "http" THEN RetryableStatus(c, resp.status)
           ELSE resp.name # "AbortError"

\* C21 (as stated): a failed attempt is followed by a retry if and only if
\* the retries so far are fewer than maxRetries and the failure is an HTTP
\* error with a status in statusCodes or a non-HTTP failure other than an
\* abort; a first answer with a non-2xx status outside the set, or an
\* AbortError, gives exactly one request and an error.
C21_RetryIffEligible ==
    (call.op = "fetch" /\ RequestAccepted(call)) =>
        /\ call.out.requests >= 1
        /\ \A n \in 1 .. call.out.requests :
              AttemptFailed(call, n) =>
                  ((n < call.out.requests) <=> RetriedFailure(call, n))
        /\ LET first == call.answers[1]
           IN  (\/ first.kind = "error" /\ first.name = "AbortError"
                \/ /\ first.kind = "http" /\ ~Response_ok(first)
                   /\ ~RetryableStatus(call, first.status)) =>
                    call.out.requests = 1 /\ ~call.out.res.ok

\* C21 (amended): a failed attempt is followed by a retry if and only if the
\* failure is eligible as above and the delay computed for the retry does not
\* exceed maxDelayInMillis; a first answer with a non-2xx status outside the
\* set, or an AbortError, gives exactly one request and an error.
C21_RetryEligibility ==
    (call.op = "fetch" /\ RequestAccepted(call)) =>
        /\ call.out.requests >= 1
        /\ \A n \in 1 .. call.out.requests :
              AttemptFailed(call, n) =>
                  ((n < call.out.requests) <=>
                      /\ RetriedFailure(call, n)
                      /\ backOffDelayMillis(call.retryConfig, n - 1)
                            <= call.retryConfig.maxDelayInMillis)
        /\ LET first == call.answers[1]
           IN  (\/ first.kind = "error" /\ first.name = "AbortError"
                \/ /\ first.kind = "http" /\ ~Response_ok(first)
                   /\ ~RetryableStatus(call, first.status)) =>
                    call.out.requests = 1 /\ ~call.out.res.ok

\* a 400 answer to a client that retries 503 up to four times: one request
C21_Witness ==
    /\ call.op = "fetch"
    /\ call.retryConfig.maxRetries = 4
    /\ RetryableStatus(call, 503)
    /\ call.out.requests = 1
    /\ call.answers[1] \in
          {HttpResponse(400, Object(<< Field("error", Str("Server error")) >>)),
           NetworkFailure("AbortError")}
    /\ ~call.out.res.ok

\* C22: the wait before the retry that follows n retries is 0 ms for n = 0
\* and min(2^n * backOffFactor * 1000, maxDelayInMillis) ms for n >= 1; with
\* backOffFactor unset or 0 every wait is 0.
C22_BackoffDelays ==
    call.op = "fetch" =>
        LET halves == IF call.retryConfig.backOffHalves = Undefined THEN 0
                      ELSE call.retryConfig.backOffHalves.n
        IN  \A i \in 1 .. Len(call.out.delays) :
                /\ call.out.delays[i] =
                      IF i = 1 THEN 0
                      ELSE IF (2 ^ (i - 1)) * halves * 500 <= call.retryConfig.maxDelayInMillis
                      THEN (2 ^ (i - 1)) * halves * 500
                      ELSE call.retryConfig.maxDelayInMillis
                /\ halves = 0 => call.out.delays[i] = 0

\* backOffFactor 0.5 and maxDelayInMillis 3000: waits of 0, 1, 2 and 3 seconds
C22_Witness ==
    /\ call.op = "fetch"
    /\ call.retryConfig.backOffHalves = Num(1)
    /\ call.out.delays = <<0, 1000, 2000, 3000>>

\* the delay of the retry that follows n retries, before the cap: 0 for
\* n = 0, else 2^n * backOffFactor * 1000 ms
DelayBeforeCap(c, n) ==
    IF n = 0 THEN 0
    ELSE (2 ^ n) * (IF c.retryConfig.backOffHalves = Undefined THEN 0
                    ELSE c.retryConfig.backOffHalves.n) * 500

\* C23: an attempt that fails when the backoff delay of the next retry
\* (2^n * backOffFactor * 1000 ms after n retries) exceeds maxDelayInMillis is
\* the last request of the call, and the call rejects with a
\* FirebaseAppError, however many retries maxRetries leaves.
C23_NoRetryBeyondMaxDelay ==
    call.op = "fetch" =>
        \A n \in 1 .. call.out.requests :
            (/\ AttemptFailed(call, n)
             /\ DelayBeforeCap(call, n - 1) > call.retryConfig.maxDelayInMillis) =>
                /\ n = call.out.requests
                /\ ~call.out.res.ok
                /\ call.out.res.cls = "FirebaseAppError"

\* C24: when the request validator rejects the request data, BaseClient.fetch
\* fails with the validator's error, asks the credential for no token, sends
\* no HTTP request and waits for no retry.
C24_ValidatorRejectsFirst ==
    (call.op = "fetch" /\ ~RequestAccepted(call)) =>
        /\ call.out.res = requestValidator(call.api, call.requestData)
        /\ call.out.accessTokens = 0
        /\ call.out.requests = 0
        /\ call.out.delays = <<>>

\* a request without the user identifier, outside the emulator
C24_Witness ==
    /\ call.op = "fetch"
    /\ call.api = "revokeRefreshTokens"
    /\ call.env = Undefined
    /\ call.requestData # Undefined
    /\ call.requestData.localId = Undefined
    /\ call.out.res.code = "auth/internal-error"
    /\ call.out.accessTokens = 0

C26_TimeoutPerAttempt ==
    (call.op = "fetchInFlight" /\ call.timedOut # Null) =>
        call.timedOut.ran >= TimeoutSeconds

\* C29 (as stated): every BaseClient.fetch call returns, having sent at most
\* maxRetries + 1 HTTP requests and waited at most maxDelayInMillis before
\* each retry, whatever the server answers.
C29_EveryCallReturns ==
    /\ [](call.op = "fetch" =>
            /\ call.out.requests <= call.retryConfig.maxRetries + 1
            /\ Len(call.out.delays) <= call.retryConfig.maxRetries
            /\ \A i \in 1 .. Len(call.out.delays) :
                  call.out.delays[i] <= call.retryConfig.maxDelayInMillis)
    /\ \A p \in Callers : (pending[p].pc # "idle") ~> (pending[p].pc = "idle")

\* C29 (amended): every BaseClient.fetch call that has its bearer token (on
\* the emulator: every call) returns, and every call that returns has sent at
\* most maxRetries + 1 HTTP requests and waited at most maxDelayInMillis
\* before each retry, whatever the server answers.
C29_BoundedRequests ==
    /\ [](call.op = "fetch" =>
            /\ call.out.requests <= call.retryConfig.maxRetries + 1
            /\ Len(call.out.delays) <= call.retryConfig.maxRetries
            /\ \A i \in 1 .. Len(call.out.delays) :
                  call.out.delays[i] <= call.retryConfig.maxDelayInMillis)
    /\ \A p \in Callers :
          (/\ pending[p].pc # "idle"
           /\ pending[p].pc = "getToken" => useEmulator(CallEnv))
              ~> (pending[p].pc = "idle")

\* five failures answered to a client with four retries: five requests
C29_Witness ==
    /\ call.op = "fetch"
    /\ call.retryConfig.maxRetries = 4
    /\ call.out.requests = 5
    /\ Len(call.out.delays) = 4
    /\ ~call.out.res.ok

\* ---- revocation (SpecAuth)
\* the call is a verifyIdToken or verifySessionCookie call
VerifyCall(c) == c.op \in {"verifyIdToken", "verifySessionCookie"}
\* the backend's record, at the time of the call, of the token's subject
\* (the empty sequence when the backend has none)
SubjectRecords(c) ==
    SelectSeq(c.users, LAMBDA u : Get(u, "localId") = c.jwt.payload.sub)
\* the revocation code of the operation
RevokedCode(c) ==
    IF c.op = "verifyIdToken" THEN "auth/id-token-revoked"
    ELSE "auth/session-cookie-revoked"
\* the subject's record says the token's auth_time is before validSince
IssuedBeforeValidSince(c) ==
    /\ Get(SubjectRecords(c)[1], "validSince") # Undefined
    /\ c.jwt.payload.auth_time.n * 1000 < Get(SubjectRecords(c)[1], "validSince").n * 1000

\* C15: verifyIdToken / verifySessionCookie look the user up only when
\* checkRevoked is set and the token itself has verified. With checkRevoked
\* set, a credential and a user record for sub: a disabled user gives
\* auth/user-disabled (even when the token is also revoked); otherwise a
\* tokensValidAfterTime strictly later than auth_time * 1000 ms gives
\* auth/id-token-revoked or auth/session-cookie-revoked; otherwise the claims
\* are returned. Where no record is fetched (an Auth without a credential
\* makes no lookup, the backend has no record for sub) the call rejects with
\* another error. Without checkRevoked no lookup is made, neither error occurs
\* and a verified token's claims are returned.
C15_RevocationCheck ==
    VerifyCall(call) =>
        /\ ~call.out.jwt.res.ok =>
              call.out.lookups = 0 /\ call.out.res = call.out.jwt.res
        /\ ~call.checkRevoked =>
              /\ call.out.lookups = 0
              /\ call.out.res.code \notin
                    {"auth/user-disabled", "auth/id-token-revoked",
                     "auth/session-cookie-revoked"}
              /\ call.out.jwt.res.ok =>
                    call.out.res.ok /\ call.out.value = call.jwt.payload
        /\ (/\ call.checkRevoked /\ call.out.jwt.res.ok
            /\ cfg.credential /\ SubjectRecords(call) # << >>) =>
              /\ call.out.lookups = 1
              /\ IF Truthy(Get(SubjectRecords(call)[1], "disabled"))
                 THEN ~call.out.res.ok /\ call.out.res.code = "auth/user-disabled"
                 ELSE IF IssuedBeforeValidSince(call)
                 THEN ~call.out.res.ok /\ call.out.res.code = RevokedCode(call)
                 ELSE call.out.res.ok /\ call.out.value = call.jwt.payload
        /\ (/\ call.checkRevoked /\ call.out.jwt.res.ok
            /\ ~(cfg.credential /\ SubjectRecords(call) # << >>)) =>
              /\ ~call.out.res.ok
              /\ call.out.lookups = (IF cfg.credential THEN 1 ELSE 0)
              /\ call.out.res.code \notin
                    {"auth/user-disabled", "auth/id-token-revoked",
                     "auth/session-cookie-revoked"}

\* a session cookie of a disabled user whose tokens were also revoked after
\* the cookie's auth_time is reported as user-disabled
C15_Witness ==
    /\ call.op = "verifySessionCookie"
    /\ call.checkRevoked
    /\ call.out.jwt.res.ok
    /\ SubjectRecords(call) # << >>
    /\ Truthy(Get(SubjectRecords(call)[1], "disabled"))
    /\ IssuedBeforeValidSince(call)
    /\ call.out.lookups = 1
    /\ call.out.res.code = "auth/user-disabled"

\* C16 (as stated): a completed revokeRefreshTokens(uid) at time T leaves the
\* user's validSince at floor(T / 1000) seconds. From then on, for a session
\* cookie of uid that itself verifies: if its auth_time is earlier than
\* validSince, verifySessionCookie(cookie, false) resolves with uid and every
\* verifySessionCookie(cookie, true) rejects with
\* auth/session-cookie-revoked; if its auth_time is not earlier than
\* validSince it is never reported revoked.
C16_RevokedCookieAlwaysReportedRevoked ==
    /\ (call.op = "revokeRefreshTokens" /\ call.out.res.ok) =>
          \E i \in DOMAIN call.left :
              /\ Get(call.left[i], "localId") = call.uid
              /\ Get(call.left[i], "validSince") = Num(call.now \div 1000)
    /\ (/\ call.op = "verifySessionCookie" /\ call.out.jwt.res.ok
        /\ SubjectRecords(call) # << >>
        /\ Get(SubjectRecords(call)[1], "validSince") # Undefined) =>
          IF IssuedBeforeValidSince(call)
          THEN /\ ~call.checkRevoked =>
                    /\ call.out.res.ok
                    /\ call.out.value.sub = Get(SubjectRecords(call)[1], "localId")
               /\ call.checkRevoked =>
                    /\ ~call.out.res.ok
                    /\ call.out.res.code = "auth/session-cookie-revoked"
          ELSE call.out.res.code # "auth/session-cookie-revoked"

\* C16 (amended): as above, except that verifySessionCookie(cookie, true)
\* rejects with auth/user-disabled when the user is disabled at the time of
\* the lookup, and with auth/session-cookie-revoked otherwise.
C16_RevokedSessionCookie ==
    /\ (call.op = "revokeRefreshTokens" /\ call.out.res.ok) =>
          \E i \in DOMAIN call.left :
              /\ Get(call.left[i], "localId") = call.uid
              /\ Get(call.left[i], "validSince") = Num(call.now \div 1000)
    /\ (/\ call.op = "verifySessionCookie" /\ call.out.jwt.res.ok
        /\ SubjectRecords(call) # << >>
        /\ Get(SubjectRecords(call)[1], "validSince") # Undefined) =>
          IF IssuedBeforeValidSince(call)
          THEN /\ ~call.checkRevoked =>
                    /\ call.out.res.ok
                    /\ call.out.value.sub = Get(SubjectRecords(call)[1], "localId")
               /\ call.checkRevoked =>
                    /\ ~call.out.res.ok
                    /\ call.out.res.code =
                          IF Truthy(Get(SubjectRecords(call)[1], "disabled"))
                          THEN "auth/user-disabled"
                          ELSE "auth/session-cookie-revoked"
          ELSE call.out.res.code # "auth/session-cookie-revoked"

\* a session cookie issued in the second before the revocation is rejected
\* as revoked when checkRevoked is set
C16_Witness ==
    /\ call.op = "verifySessionCookie"
    /\ call.checkRevoked
    /\ call.out.jwt.res.ok
    /\ SubjectRecords(call) # << >>
    /\ Get(SubjectRecords(call)[1], "validSince") = Num(1)
    /\ call.jwt.payload.auth_time = Num(0)
    /\ call.out.res.code = "auth/session-cookie-revoked"

\* ---- singleton (SpecSingleton)
\* C17: within one execution context every call of Auth.getOrInitialize that
\* returns, with or without a credential, returns the instance the first such
\* call returned (a call whose constructor throws returns nothing).
C17_SameInstanceAsFirstCall ==
    (call.op = "getOrInitialize" /\ call.res.ok) => call.returned = req.first

\* ---- base64 (SpecBase64)
\* C18: encoding and then decoding returns the input, for every string and
\* for every byte array, the empty one, bytes from 0x80 and content with '-'
\* or '_' included.
C18_Base64UrlRoundTrip ==
    call.op \in {"roundTrip", "roundTripBytes"} =>
        call.out.res.ok /\ call.out.value = call.input

\* ---- concurrent fetchPublicKeys (SpecRace)
\* caller p's call has returned after a cache miss
ReturnedAfterMiss(p) == call[p].pc = "done" /\ call[p].fetches > 0
\* the entry a put of the keys of one whole response writes
WholeResponsePuts ==
    {KVAfter(Null, refresh(cfg.rev, Response(TRUE, body, origin.cc))) : body \in GoodBodies}

\* C19: calls of fetchPublicKeys that overlap on an empty cache each make
\* exactly one HTTP fetch of their own and each return the key set of the
\* response they fetched; the cache then holds exactly the value of the last
\* put, which is the key set of one response and never a mixture; a call
\* that finds that value returns it without fetching.
C19_ConcurrentFetchLastWriteWins ==
    /\ \A p \in 1 .. 2 :
          /\ call[p].fetches <= 1
          /\ call[p].pc \in {"json", "certImport", "certExport", "put"} =>
                call[p].fetches = 1
          /\ ReturnedAfterMiss(p) =>
                /\ call[p].fetches = 1
                /\ call[p].out.res.ok
                /\ call[p].out.keys = keysOf(cfg.rev, call[p].resp.body)
          /\ (call[p].pc = "done" /\ call[p].fetches = 0) =>
                /\ call[p].entry # Null
                /\ call[p].out.res.ok
                /\ call[p].out.fetched = 0
                /\ call[p].out.keys = KVGet(call[p].entry).items
    /\ kv = IF req.lastPut = Null THEN Null
            ELSE KVPut(JSON_stringify(keysOf(cfg.rev, req.lastPut.body)),
                       parseMaxAge(req.lastPut.cc))
    /\ kv # Null => kv \in WholeResponsePuts

\* both callers missed the empty cache, fetched different key sets around a
\* rotation and returned them; the cache holds one of the two
C19_Witness ==
    /\ ReturnedAfterMiss(1) /\ ReturnedAfterMiss(2)
    /\ call[1].n = 1 /\ call[2].n = 1
    /\ call[1].entry = Null /\ call[2].entry = Null
    /\ call[1].out.keys # call[2].out.keys
    /\ kv = KVAfter(Null, call[1].out)
    /\ kv # KVAfter(Null, call[2].out)

\* ---- order of the stages (Spec)
\* C20: a verifyJWT call that ends in the argument checks, the decode or the
\* payload policy has invoked no signature verifier, so it has read no cache
\* entry, made no HTTP fetch and written nothing to the cache; a call that
\* reached a signature verifier has a token that decodes and passes the
\* payload policy at the call's reference time.
C20_StagesInOrder ==
    call.op = "verifyJWT" =>
        /\ call.stage \in {"argument", "decode", "payload"} =>
              /\ ~call.res.ok
              /\ call.verifier = "none"
              /\ call.out = NoFetch
              /\ call.after = call.entry
        /\ (call.verifier # "none" \/ call.out.fetched > 0 \/ call.out.put.done) =>
              /\ call.stage \in {"signature", "done"}
              /\ safeDecode(Verifier(call.kind), call.jwt, call.currentTimestamp).ok
              /\ verifyPayload(Verifier(call.kind), call.jwt.payload,
                               call.currentTimestamp).ok

\* a token that decodes but fails the payload policy, verified outside the
\* emulator with an empty cache and a reachable endpoint: nothing is fetched
C20_Witness ==
    /\ call.op = "verifyJWT"
    /\ call.stage = "payload"
    /\ ~call.isEmulator
    /\ call.entry = Null
    /\ call.resp.ok
    /\ call.out.fetched = 0
    /\ call.after = Null

\* ---- header decode (SpecDecode)
\* a decode call on a token of three parts whose header segment is JSON
DecodedHeaderOf(c) ==
    c.op = "decode" /\ c.jwt.parts = 3 /\ c.jwt.header.t = "object"

\* C27: header decode fails with NO_KID_IN_HEADER unless kid is a non-empty
\* string (a missing, a non-string and an empty kid are rejected) and with
\* INVALID_ARGUMENT when alg is present and is not RS256; a header with a
\* non-empty kid and no alg passes on to the payload.
C27_HeaderDecode ==
    DecodedHeaderOf(call) =>
        LET header == call.jwt.header
        IN  IF ~isNonEmptyString(header.kid)
            THEN ~call.res.ok /\ call.res.code = JwtErrorCode.NO_KID_IN_HEADER
            ELSE IF header.alg # Undefined /\ header.alg # Str("RS256")
            THEN /\ ~call.res.ok /\ call.res.code = JwtErrorCode.INVALID_ARGUMENT
                 /\ call.res.msg = "algorithm must be RS256 but got"
            ELSE IF ~decodePayload(call.jwt.payload, call.currentTimestamp).ok
            THEN call.res = decodePayload(call.jwt.payload, call.currentTimestamp)
            ELSE call.res = decodeSegment(call.jwt.signature)

\* C30: RS256Token.decode ends in a decoded token or in a JwtError with one
\* of the codes INVALID_ARGUMENT, NO_KID_IN_HEADER, TOKEN_EXPIRED, also when
\* the header or the payload segment is no JSON (decodeBase64JSON gives null).
C30_CodedFailuresOnly ==
    call.op = "decode" =>
        \/ call.res.ok
        \/ /\ call.res.cls = "JwtError"
           /\ call.res.code \in {JwtErrorCode.INVALID_ARGUMENT,
                                 JwtErrorCode.NO_KID_IN_HEADER,
                                 JwtErrorCode.TOKEN_EXPIRED}

\* ---- DER lengths (SpecDer)
\* the number of tag bytes of an element: one, or with the low five bits all
\* set the bytes up to and including the first one below 0x80
TagBytes(bytes) ==
    IF bytes[1] % 32 # 31 THEN 1
    ELSE 1 + CHOOSE k \in 1 .. Len(bytes) :
                /\ 1 + k <= Len(bytes) /\ bytes[1 + k] < 128
                /\ \A j \in 1 .. k - 1 : bytes[1 + j] >= 128
\* the tag is complete and a length byte follows it
HasLengthByte(bytes) ==
    /\ Len(bytes) >= 2
    /\ bytes[1] % 32 = 31 => \E k \in 2 .. Len(bytes) - 1 : bytes[k] < 128
\* the length the three forms give to the contents, and the bytes of the
\* length field; -1 where the bytes do not hold the whole field or no
\* terminator follows
ContentLength(bytes) ==
    LET t == TagBytes(bytes)
        first == bytes[t + 1]
        k == first % 128
        RECURSIVE value(_)
        value(i) == IF i = 0 THEN 0 ELSE value(i - 1) * 256 + bytes[t + 1 + i]
        Terminators == {n \in 0 .. Len(bytes) :
                          /\ t + 1 + n + 2 <= Len(bytes)
                          /\ bytes[t + 1 + n + 1] = 0 /\ bytes[t + 1 + n + 2] = 0}
    IN  IF first < 128 THEN [field |-> 1, len |-> first, terminator |-> 0]
        ELSE IF first = 128
        THEN IF Terminators = {} THEN [field |-> 1, len |-> -1, terminator |-> 2]
             ELSE [field |-> 1, terminator |-> 2,
                   len |-> CHOOSE n \in Terminators : \A m \in Terminators : n <= m]
        ELSE IF t + 1 + k > Len(bytes) THEN [field |-> 1 + k, len |-> -1, terminator |-> 0]
        ELSE [field |-> 1 + k, len |-> value(k), terminator |-> 0]

\* C28: parseElement decodes the three length forms: below 0x80 the byte is
\* the content length; 0x80 means contents up to the first 0x00 0x00, with the
\* two terminator bytes counted in byteLength; 0x81..0xFF means the big-endian
\* value of the following (byte & 0x7f) bytes; byteLength is header bytes plus
\* content length (plus terminator).
C28_LengthForms ==
    (/\ call.op = "parseElement" /\ HasLengthByte(call.bytes)
     /\ ContentLength(call.bytes).len >= 0) =>
        LET t == TagBytes(call.bytes)
            c == ContentLength(call.bytes)
        IN  /\ call.out.ok
            /\ call.out.byteLength = Num(t + c.field + c.len + c.terminator)
            /\ call.out.contents =
                  SubSeq(call.bytes, t + c.field + 1,
                         Min(t + c.field + c.len, Len(call.bytes)))

====
